---------------------------- MODULE Spec2Model ----------------------------
(***************************************************************************)
(* The catalog REST API of mcp-server-catalog-with-api: the in-memory      *)
(* product store and category forest, and the repository operations that   *)
(* filter, sort, search, paginate and summarise them.                      *)
(*                                                                         *)
(* Conventions of the model                                                *)
(*   - a string the code lower-cases, searches or collates (name,          *)
(*     description, tag, brand, query) is a sequence of one-character      *)
(*     strings; a string the code only compares with === (id, category)    *)
(*     is a TLA+ string;                                                   *)
(*   - an optional value (T | undefined) is the empty set when undefined   *)
(*     and {v} when it is v;                                               *)
(*   - rating is kept in tenths (48 is 4.8), averagePrice in hundredths;   *)
(*   - a JavaScript array is a record [ref, items]: ref names the array    *)
(*     object ("store" for the repository's products array, "new" for an   *)
(*     array an expression has just allocated), so that an in-place        *)
(*     Array.prototype.sort on the store array is visible as a change of   *)
(*     the store.                                                          *)
(***************************************************************************)
EXTENDS Integers, Sequences, FiniteSets, TLC

VARIABLES
    products,    \* ProductRepository.products / CategoryRepository.products
    categories,  \* CategoryRepository.categories
    request,     \* the repository call being served: its name and arguments
    response     \* what that call returned, until the caller has taken it

vars == <<products, categories, request, response>>

---------------------------------------------------------------------------
(* Bounds of the model *)

\* the longest store
MaxProducts == 3
\* the largest page number requested
MaxPage == 3
\* the largest page size / result limit requested
MaxLimit == 2

---------------------------------------------------------------------------
(* JavaScript strings *)

LowerCaseLetters == <<"a", "b", "c", "d", "p", "s">>
UpperCaseLetters == <<"A", "B", "C", "D", "P", "S">>

\* the position of a letter in the alphabet, whatever its case
LetterIndex(ch) ==
    CHOOSE i \in 1..Len(LowerCaseLetters) :
        LowerCaseLetters[i] = ch \/ UpperCaseLetters[i] = ch

\* String.prototype.toLowerCase
toLowerCase(s) == [i \in 1..Len(s) |-> LowerCaseLetters[LetterIndex(s[i])]]

\* String.prototype.includes
includes(s, q) ==
    \E i \in 0..(Len(s) - Len(q)) : SubSeq(s, i + 1, i + Len(q)) = q

\* String.prototype.localeCompare on two lower-cased strings: the sign of
\* their alphabetical comparison
RECURSIVE localeCompare(_, _)
localeCompare(a, b) ==
    IF a = <<>> /\ b = <<>> THEN 0
    ELSE IF a = <<>> THEN -1
    ELSE IF b = <<>> THEN 1
    ELSE IF LetterIndex(a[1]) < LetterIndex(b[1]) THEN -1
    ELSE IF LetterIndex(a[1]) > LetterIndex(b[1]) THEN 1
    ELSE localeCompare(Tail(a), Tail(b))

\* the truthiness of an optional string: undefined and "" are falsy
\* (Truthy for an id or an enumeration value, TruthyText for a text)
Truthy(opt) == opt # {} /\ opt # {""}
TruthyText(opt) == opt # {} /\ opt # {<<>>}

\* the value of an optional that is present
Val(opt) == CHOOSE v \in opt : TRUE

---------------------------------------------------------------------------
(* Dates: createdAt is an ISO-8601 calendar date, [y, m, d] *)

\* days from 1970-01-01 to the civil date y-m-d (proleptic Gregorian)
DaysFromCivil(y, m, d) ==
    LET yy  == IF m <= 2 THEN y - 1 ELSE y
        era == yy \div 400
        yoe == yy - era * 400
        mp  == (m + 9) % 12
        doy == (153 * mp + 2) \div 5 + d - 1
        doe == yoe * 365 + yoe \div 4 - yoe \div 100 + doy
    IN  era * 146097 + doe - 719468

\* new Date(iso).getTime(): the instant of the date, counted from the epoch
\* (in seconds here, to stay within TLC's integers; the code counts
\* milliseconds, and only compares two such instants)
getTime(iso) == DaysFromCivil(iso.y, iso.m, iso.d) * 86400

---------------------------------------------------------------------------
(* JavaScript arrays *)

\* the repository's own array
StoreArray(items) == [ref |-> "store", items |-> items]

\* [...a]: a new array with the same elements
Spread(a) == [ref |-> "new", items |-> a.items]

\* Array.prototype.filter: a new array
filter(a, Keep(_)) == [ref |-> "new", items |-> SelectSeq(a.items, Keep)]

\* the index Array.prototype.slice works from for an argument k
RelativeIndex(k, len) ==
    IF k < 0 THEN (IF len + k < 0 THEN 0 ELSE len + k)
    ELSE (IF k > len THEN len ELSE k)

\* Array.prototype.slice(start, end): a new array
slice(a, start, end) ==
    LET len  == Len(a.items)
        from == RelativeIndex(start, len)
        to   == RelativeIndex(end, len)
    IN  [ref |-> "new", items |-> SubSeq(a.items, from + 1, to)]

\* A stable sort by insertion: each element goes after every element that
\* does not compare greater than it
StableSort(items, Cmp(_, _)) ==
    LET RECURSIVE InsertSorted(_, _)
        InsertSorted(sorted, x) ==
            IF sorted = <<>> THEN <<x>>
            ELSE IF Cmp(sorted[Len(sorted)], x) <= 0 THEN Append(sorted, x)
            ELSE Append(InsertSorted(SubSeq(sorted, 1, Len(sorted) - 1), x),
                        sorted[Len(sorted)])
        RECURSIVE SortPrefix(_)
        SortPrefix(n) ==
            IF n = 0 THEN <<>>
            ELSE InsertSorted(SortPrefix(n - 1), items[n])
    IN  SortPrefix(Len(items))

\* Array.prototype.sort(compareFn): stable (ES2019), in place, returns the
\* array it was called on
sort(a, Cmp(_, _)) == [ref |-> a.ref, items |-> StableSort(a.items, Cmp)]

\* the store after a handler whose one sorted array is a: changed only when
\* the array sorted is the store array itself
StoreAfter(store, a) == IF a.ref = "store" THEN a.items ELSE store

---------------------------------------------------------------------------
(* The catalog: Product records *)

Product(id, name, description, tags, price, category, subcategory, brand, inStock, stockQuantity, rating, reviewCount, createdAt) ==
    [id |-> id, name |-> name, description |-> description, tags |-> tags,
     price |-> price, category |-> category, subcategory |-> subcategory,
     brand |-> brand, inStock |-> inStock, stockQuantity |-> stockQuantity,
     rating |-> rating, reviewCount |-> reviewCount, createdAt |-> createdAt]

Date(y, m, d) == [y |-> y, m |-> m, d |-> d]

\* The products a store is drawn from.  Among them: three electronics
\* products priced 999, 1599 and 50; names equal up to case; equal prices,
\* ratings, rating * reviewCount and creation dates; brands equal up to case;
\* a product reached only through its subcategory, one only through a tag;
\* stock of 50, 10 and 0 in stock, and a stock of 20 that is not in stock.
ProductPool ==
    { Product("iphone-15-pro", <<"A", "b">>, <<"a", "b">>, << <<"p">> >>,
              999, "electronics", {"smartphones"}, <<"A", "p">>,
              TRUE, 50, 48, 10, Date(2024, 1, 15)),
      Product("macbook-pro", <<"a", "B">>, <<"c", "d">>, << <<"p">>, <<"d">> >>,
              1599, "electronics", {"laptops"}, <<"A", "p">>,
              TRUE, 0, 45, 20, Date(2023, 12, 31)),
      Product("usb-cable", <<"C", "d">>, <<"B", "a">>, << >>,
              50, "electronics", {}, <<"S", "a">>,
              FALSE, 20, 45, 20, Date(2024, 1, 15)),
      Product("t-shirt", <<"d", "d">>, <<"d", "s">>, << <<"c", "A">> >>,
              50, "clothing", {"shirts"}, <<"a", "p">>,
              TRUE, 10, 39, 100, Date(2024, 3, 1)) }

\* sequences of distinct pool products, no longer than n
RECURSIVE StoresUpTo(_)
StoresUpTo(n) ==
    IF n = 0 THEN { <<>> }
    ELSE LET shorter == StoresUpTo(n - 1)
         IN  shorter \cup
             { Append(s, p) : s \in { t \in shorter : Len(t) = n - 1 },
                              p \in ProductPool }

Distinct(s) == \A i, j \in 1..Len(s) : i # j => s[i].id # s[j].id

Stores == { s \in StoresUpTo(MaxProducts) : Distinct(s) }

\* Category records
Category(id, parentId, subcategories, productCount) ==
    [id |-> id, parentId |-> parentId, subcategories |-> subcategories,
     productCount |-> productCount]

\* the category forest of the store, with the counts the data file carries
CategoryForest ==
    << Category("electronics", {},
                << Category("smartphones", {"electronics"}, <<>>, 1),
                   Category("laptops", {"electronics"}, <<>>, 1) >>, 3),
       Category("clothing", {},
                << Category("shirts", {"clothing"}, <<>>, 1) >>, 1) >>

---------------------------------------------------------------------------
(* Pagination *)

\* Math.ceil(total / limit); total / 0 is Infinity, and NaN for a total of 0
CeilDiv(total, limit) ==
    IF limit > 0 THEN (total + limit - 1) \div limit
    ELSE IF limit < 0 THEN -(total \div (-limit))
    ELSE IF total > 0 THEN "Infinity" ELSE "NaN"

\* page < totalPages, where totalPages is Math.ceil(total / limit): every
\* page is less than Infinity and none is less than NaN
BelowTotalPages(page, limit, total) ==
    IF limit = 0 THEN total > 0 ELSE page < CeilDiv(total, limit)

\* PaginationMeta with hasNext taken from page <= totalPages
PaginationMetaInclusive(page, limit, total) ==
    LET totalPages == CeilDiv(total, limit)
    IN  [page |-> page, limit |-> limit, total |-> total,
         totalPages |-> totalPages,
         hasNext |-> IF limit = 0 THEN total > 0 ELSE page <= totalPages,
         hasPrev |-> page > 1]

\* PaginationMeta as the three paginated handlers build it
PaginationMeta(page, limit, total) ==
    LET totalPages == CeilDiv(total, limit)
    IN  [page |-> page, limit |-> limit, total |-> total,
         totalPages |-> totalPages,
         hasNext |-> BelowTotalPages(page, limit, total),
         hasPrev |-> page > 1]

\* Paginate with the offset taken from a 0-based page
PaginateFromPage(a, page, limit) ==
    LET offset == page * limit
    IN  slice(a, offset, offset + limit)

\* offset = (page - 1) * limit; slice(offset, offset + limit)
Paginate(a, page, limit) ==
    LET offset == (page - 1) * limit
    IN  slice(a, offset, offset + limit)

---------------------------------------------------------------------------
(* ProductRepository.getProducts *)

MatchesCategory(p, category) ==
    p.category = category \/ p.subcategory = {category}

\* the comparison of the sort callback, before the direction is applied
Comparison(sortBy, a, b) ==
    CASE sortBy = "price"      -> a.price - b.price
      [] sortBy = "rating"     -> a.rating - b.rating
      [] sortBy = "created_at" -> getTime(a.createdAt) - getTime(b.createdAt)
      [] OTHER -> localeCompare(toLowerCase(a.name), toLowerCase(b.name))

\* return sortOrder === 'desc' ? -comparison : comparison
Directed(sortOrder, comparison) ==
    IF sortOrder = "desc" THEN -comparison ELSE comparison

\* filteredProducts bound to the store array itself, without the spread
AliasOfStore(store) == StoreArray(store)

\* let filteredProducts = [...this.products]
CopyOfStore(store) == Spread(StoreArray(store))

\* if (filters.category) filteredProducts = filteredProducts.filter(...)
ByCategory(a, filters) ==
    IF Truthy(filters.category)
    THEN filter(a, LAMBDA p : MatchesCategory(p, Val(filters.category)))
    ELSE a

\* ByBrand comparing the brands as written, without lower-casing them
ByBrandExact(a, filters) ==
    IF TruthyText(filters.brand)
    THEN filter(a, LAMBDA p : p.brand = Val(filters.brand))
    ELSE a

\* if (filters.brand) ... p.brand.toLowerCase() === filters.brand.toLowerCase()
ByBrand(a, filters) ==
    IF TruthyText(filters.brand)
    THEN filter(a, LAMBDA p : toLowerCase(p.brand) = toLowerCase(Val(filters.brand)))
    ELSE a

\* if (filters.inStock) ... p.inStock
ByInStock(a, filters) ==
    IF filters.inStock THEN filter(a, LAMBDA p : p.inStock) ELSE a

\* if (filters.minPrice !== undefined) ... p.price >= filters.minPrice
ByMinPrice(a, filters) ==
    IF filters.minPrice # {}
    THEN filter(a, LAMBDA p : p.price >= Val(filters.minPrice))
    ELSE a

\* if (filters.maxPrice !== undefined) ... p.price <= filters.maxPrice
ByMaxPrice(a, filters) ==
    IF filters.maxPrice # {}
    THEN filter(a, LAMBDA p : p.price <= Val(filters.maxPrice))
    ELSE a

\* the filter steps of getProducts, in the order the handler applies them
ApplyFilters(a, filters) ==
    ByMaxPrice(ByMinPrice(ByInStock(ByBrand(ByCategory(a, filters), filters),
                                    filters), filters), filters)

\* Array.prototype.reverse, in place
reverse(a) ==
    [ref |-> a.ref, items |-> [i \in 1..Len(a.items) |-> a.items[Len(a.items) + 1 - i]]]

\* ApplySort sorting ascending and reversing the array for 'desc'
ApplySortByReversal(a, filters) ==
    LET sortBy    == IF Truthy(filters.sortBy) THEN Val(filters.sortBy) ELSE "name"
        sortOrder == IF Truthy(filters.sortOrder) THEN Val(filters.sortOrder) ELSE "asc"
        ascending == sort(a, LAMBDA x, y : Comparison(sortBy, x, y))
    IN  IF sortOrder = "desc" THEN reverse(ascending) ELSE ascending

\* filteredProducts.sort((a, b) => ...)
ApplySort(a, filters) ==
    LET sortBy    == IF Truthy(filters.sortBy) THEN Val(filters.sortBy) ELSE "name"
        sortOrder == IF Truthy(filters.sortOrder) THEN Val(filters.sortOrder) ELSE "asc"
    IN  sort(a, LAMBDA x, y : Directed(sortOrder, Comparison(sortBy, x, y)))

\* the whole handler: the value returned and the store it leaves
getProducts(store, filters, pagination) ==
    LET filteredProducts == ApplySort(ApplyFilters(CopyOfStore(store), filters), filters)
        total == Len(filteredProducts.items)
        paginatedProducts == Paginate(filteredProducts, pagination.page, pagination.limit)
    IN  [store |-> StoreAfter(store, filteredProducts),
         value |-> [products |-> paginatedProducts.items,
                    meta |-> PaginationMeta(pagination.page, pagination.limit, total)]]

---------------------------------------------------------------------------
(* ProductRepository.searchProducts *)

\* const query = searchFilters.query || ''
QueryOf(searchFilters) ==
    IF TruthyText(searchFilters.query) THEN Val(searchFilters.query) ELSE <<>>

\* matchesQuery looking at the name and the description only
MatchesQueryWithoutTags(p, query) ==
    \/ query = <<>>
    \/ includes(toLowerCase(p.name), toLowerCase(query))
    \/ includes(toLowerCase(p.description), toLowerCase(query))

\* matchesQuery
MatchesQuery(p, query) ==
    \/ query = <<>>
    \/ includes(toLowerCase(p.name), toLowerCase(query))
    \/ includes(toLowerCase(p.description), toLowerCase(query))
    \/ \E t \in 1..Len(p.tags) : includes(toLowerCase(p.tags[t]), toLowerCase(query))

\* the score with the weights of name and description exchanged
ScoreDescriptionFirst(p, query) ==
    (IF includes(toLowerCase(p.name), toLowerCase(query)) THEN 1 ELSE 0)
    + (IF includes(toLowerCase(p.description), toLowerCase(query)) THEN 2 ELSE 0)

\* aScore, bScore
Score(p, query) ==
    (IF includes(toLowerCase(p.name), toLowerCase(query)) THEN 2 ELSE 0)
    + (IF includes(toLowerCase(p.description), toLowerCase(query)) THEN 1 ELSE 0)

\* this.products.filter((product) => matchesQuery && matchesCategory)
SearchResults(store, searchFilters) ==
    filter(StoreArray(store),
           LAMBDA p : /\ MatchesQuery(p, QueryOf(searchFilters))
                      /\ (~Truthy(searchFilters.category)
                          \/ MatchesCategory(p, Val(searchFilters.category))))

\* if (query) searchResults.sort((a, b) => bScore - aScore)
SortByRelevance(a, query) ==
    IF query # <<>>
    THEN sort(a, LAMBDA x, y : Score(y, query) - Score(x, query))
    ELSE a

\* the values as they come, without the Set
NotUnique(values) == values

\* [...new Set(values)]: the distinct values, each at its first occurrence
RECURSIVE Unique(_)
Unique(values) ==
    IF values = <<>> THEN <<>>
    ELSE LET init == Unique(SubSeq(values, 1, Len(values) - 1))
             last == values[Len(values)]
         IN  IF \E i \in 1..Len(init) : init[i] = last THEN init
             ELSE Append(init, last)

\* categoryFacets / brandFacets: one {value, count} per distinct value
Facets(values) ==
    LET distinct == Unique(values)
    IN  [i \in 1..Len(distinct) |->
            [value |-> distinct[i],
             count |-> Cardinality({ j \in 1..Len(values) : values[j] = distinct[i] })]]

searchProducts(store, searchFilters, pagination) ==
    LET query == QueryOf(searchFilters)
        searchResults == SortByRelevance(SearchResults(store, searchFilters), query)
        items == searchResults.items
        total == Len(items)
        paginatedResults == Paginate(searchResults, pagination.page, pagination.limit)
    IN  [store |-> StoreAfter(store, searchResults),
         value |-> [products |-> paginatedResults.items,
                    meta |-> PaginationMeta(pagination.page, pagination.limit, total),
                    facets |-> [categories |-> Facets([i \in 1..total |-> items[i].category]),
                                brands |-> Facets([i \in 1..total |-> items[i].brand])]]]

---------------------------------------------------------------------------
(* ProductRepository.getProductById, getProductRecommendations,           *)
(* getProductAvailability, getPopularProducts                             *)

\* Array.prototype.find: the first element that satisfies Test, if any
find(items, Test(_)) ==
    LET hits == { i \in 1..Len(items) : Test(items[i]) }
    IN  IF hits = {} THEN {}
        ELSE { items[CHOOSE i \in hits : \A j \in hits : i <= j] }

\* product || null (null is the empty optional)
getProductById(store, id) == find(store, LAMBDA p : p.id = id)

\* the candidates without the p.id !== productId test
CandidatesWithSelf(store, productId, product) ==
    filter(StoreArray(store),
           LAMBDA p : p.category = product.category \/ p.brand = product.brand)

\* this.products.filter(p => p.id !== productId && (same category || same brand))
RecommendationCandidates(store, productId, product) ==
    filter(StoreArray(store),
           LAMBDA p : /\ p.id # productId
                      /\ (p.category = product.category \/ p.brand = product.brand))

getProductRecommendations(store, productId, limit) ==
    LET found == getProductById(store, productId)
    IN  IF found = {} THEN [store |-> store, value |-> <<>>]
        ELSE LET sorted == sort(RecommendationCandidates(store, productId, Val(found)),
                                LAMBDA x, y : y.rating - x.rating)
             IN  [store |-> StoreAfter(store, sorted),
                  value |-> slice(sorted, 0, limit).items]

\* stockQuantity > 10 is in_stock
StockThreshold == 10

\* the availability record with a stock of 10 counted as in_stock
getProductAvailabilityFromThreshold(store, productId) ==
    LET found == getProductById(store, productId)
    IN  IF found = {} THEN {}
        ELSE LET product == Val(found)
             IN  { [productId |-> product.id,
                    inStock |-> product.inStock,
                    stockQuantity |-> product.stockQuantity,
                    availability |->
                        IF product.inStock
                        THEN (IF product.stockQuantity >= StockThreshold
                              THEN "in_stock" ELSE "limited_stock")
                        ELSE "out_of_stock"] }

\* the availability record (lastUpdated, the clock at the call, is left out)
getProductAvailability(store, productId) ==
    LET found == getProductById(store, productId)
    IN  IF found = {} THEN {}
        ELSE LET product == Val(found)
             IN  { [productId |-> product.id,
                    inStock |-> product.inStock,
                    stockQuantity |-> product.stockQuantity,
                    availability |->
                        IF product.inStock
                        THEN (IF product.stockQuantity > StockThreshold
                              THEN "in_stock" ELSE "limited_stock")
                        ELSE "out_of_stock"] }

\* the parameter defaults of getPopularProducts: limit = 10, minRating = 4.0
DefaultPopularLimit == 10
DefaultMinRating == 40

\* the rating filter with a strict comparison
RatedAbove(store, minRating) ==
    filter(StoreArray(store), LAMBDA p : p.rating > minRating)

\* this.products.filter((p) => p.rating >= minRating)
RatedAtLeast(store, minRating) ==
    filter(StoreArray(store), LAMBDA p : p.rating >= minRating)

\* .sort((a, b) => b.rating * b.reviewCount - a.rating * a.reviewCount)
SortByPopularity(a) ==
    sort(a, LAMBDA x, y : y.rating * y.reviewCount - x.rating * x.reviewCount)

getPopularProducts(store, category, limitArg, minRatingArg) ==
    LET limit     == IF limitArg = {} THEN DefaultPopularLimit ELSE Val(limitArg)
        minRating == IF minRatingArg = {} THEN DefaultMinRating ELSE Val(minRatingArg)
        sorted    == SortByPopularity(RatedAtLeast(store, minRating))
        popularProducts ==
            IF Truthy(category)
            THEN filter(sorted, LAMBDA p : MatchesCategory(p, Val(category)))
            ELSE sorted
    IN  [store |-> StoreAfter(store, sorted),
         value |-> slice(popularProducts, 0, limit).items]

---------------------------------------------------------------------------
(* CategoryRepository *)

\* this.products.filter(p => p.category === id || p.subcategory === id).length
CountProducts(store, id) ==
    Len(SelectSeq(store, LAMBDA p : MatchesCategory(p, id)))

\* { ...category, productCount }
WithProductCount(store, category) ==
    [category EXCEPT !.productCount = CountProducts(store, category.id)]

getCategories(forest, store, parentId, includeArg) ==
    LET includeProductCount == IF includeArg = {} THEN TRUE ELSE Val(includeArg)
        parentCategory == find(forest, LAMBDA c : c.id = Val(parentId))
        result == IF Truthy(parentId) THEN Val(parentCategory).subcategories
                  ELSE forest
    IN  IF Truthy(parentId) /\ parentCategory = {} THEN <<>>
        ELSE IF includeProductCount
        THEN [i \in 1..Len(result) |-> WithProductCount(store, result[i])]
        ELSE result

getCategoryById(forest, store, id, includeArg) ==
    LET includeProductCount == IF includeArg = {} THEN TRUE ELSE Val(includeArg)
        category == find(forest, LAMBDA c : c.id = id)
    IN  IF category = {} THEN {}
        ELSE IF includeProductCount THEN { WithProductCount(store, Val(category)) }
        ELSE category

\* this.products.filter(p => p.category === categoryId || p.subcategory === categoryId)
CategoryProducts(store, categoryId) ==
    filter(StoreArray(store), LAMBDA p : MatchesCategory(p, categoryId))

getCategoryProducts(store, categoryId, page, limit) ==
    LET categoryProducts == CategoryProducts(store, categoryId)
    IN  [products |-> Paginate(categoryProducts, page, limit).items,
         meta |-> PaginationMeta(page, limit, Len(categoryProducts.items))]

RECURSIVE Sum(_)
Sum(prices) == IF prices = <<>> THEN 0 ELSE prices[1] + Sum(Tail(prices))

\* Math.round((sum / n) * 100) / 100, in hundredths: halves round up
RoundedAverage(sum, n) == (200 * sum + n) \div (2 * n)

getCategoryPriceRange(store, categoryId) ==
    LET categoryProducts == CategoryProducts(store, categoryId).items
        n == Len(categoryProducts)
        prices == [i \in 1..n |-> categoryProducts[i].price]
    IN  IF n = 0 THEN {}
        ELSE { [categoryId |-> categoryId,
                minPrice |-> CHOOSE x \in { prices[i] : i \in 1..n } :
                                 \A i \in 1..n : x <= prices[i],
                maxPrice |-> CHOOSE x \in { prices[i] : i \in 1..n } :
                                 \A i \in 1..n : x >= prices[i],
                averagePrice |-> RoundedAverage(Sum(prices), n),
                productCount |-> n] }

---------------------------------------------------------------------------
(* The requests made of the repositories *)

CategoryArgs == { {}, {"electronics"}, {"smartphones"} }
BrandArgs == { {}, {<<"A", "P">>} }
MinPriceArgs == { {}, {999} }
MaxPriceArgs == { {}, {999} }
SortByArgs == { {"name"}, {"price"}, {"rating"}, {"created_at"} }
SortOrderArgs == { {"asc"}, {"desc"} }

ProductFilters ==
    [category : CategoryArgs, brand : BrandArgs, inStock : BOOLEAN,
     minPrice : MinPriceArgs, maxPrice : MaxPriceArgs,
     sortBy : SortByArgs, sortOrder : SortOrderArgs]

PaginationParams == [page : 1..MaxPage, limit : 1..MaxLimit]

QueryArgs == { <<>>, <<"A">>, <<"c">>, <<"p">>, <<"a", "B">> }
SearchFilters == [query : { {q} : q \in QueryArgs }, category : CategoryArgs]

ProductIdArgs == { p.id : p \in ProductPool } \cup { "no-such-product" }
CategoryIdArgs == { "electronics", "smartphones", "clothing", "no-such-category" }
LimitArgs == { {} } \cup { {n} : n \in 0..MaxLimit }
MinRatingArgs == { {}, {39}, {45} }
IncludeArgs == { {}, {TRUE}, {FALSE} }

---------------------------------------------------------------------------
(* The state machine *)

Init ==
    /\ products \in Stores
    /\ categories = CategoryForest
    /\ request = [op |-> "none"]
    /\ response = [op |-> "none"]

\* no call is being served
Idle == request.op = "none"

GetProducts ==
    /\ Idle
    /\ \E filters \in ProductFilters, pagination \in PaginationParams :
        LET r == getProducts(products, filters, pagination)
        IN  /\ products' = r.store
            /\ request' = [op |-> "getProducts", filters |-> filters,
                           pagination |-> pagination]
            /\ response' = r.value
            /\ UNCHANGED categories

SearchProducts ==
    /\ Idle
    /\ \E searchFilters \in SearchFilters, pagination \in PaginationParams :
        LET r == searchProducts(products, searchFilters, pagination)
        IN  /\ products' = r.store
            /\ request' = [op |-> "searchProducts", searchFilters |-> searchFilters,
                           pagination |-> pagination]
            /\ response' = r.value
            /\ UNCHANGED categories

GetProductById ==
    /\ Idle
    /\ \E id \in ProductIdArgs :
        /\ request' = [op |-> "getProductById", id |-> id]
        /\ response' = [product |-> getProductById(products, id)]
        /\ UNCHANGED <<products, categories>>

GetProductRecommendations ==
    /\ Idle
    /\ \E productId \in ProductIdArgs, limit \in 1..MaxLimit :
        LET r == getProductRecommendations(products, productId, limit)
        IN  /\ products' = r.store
            /\ request' = [op |-> "getProductRecommendations",
                           productId |-> productId, limit |-> limit]
            /\ response' = [products |-> r.value]
            /\ UNCHANGED categories

GetProductAvailability ==
    /\ Idle
    /\ \E productId \in ProductIdArgs :
        /\ request' = [op |-> "getProductAvailability", productId |-> productId]
        /\ response' = [availability |-> getProductAvailability(products, productId)]
        /\ UNCHANGED <<products, categories>>

GetPopularProducts ==
    /\ Idle
    /\ \E category \in CategoryArgs, limit \in LimitArgs, minRating \in MinRatingArgs :
        LET r == getPopularProducts(products, category, limit, minRating)
        IN  /\ products' = r.store
            /\ request' = [op |-> "getPopularProducts", category |-> category,
                           limit |-> limit, minRating |-> minRating]
            /\ response' = [products |-> r.value]
            /\ UNCHANGED categories

GetCategories ==
    /\ Idle
    /\ \E parentId \in { {} } \cup { {c} : c \in CategoryIdArgs },
          includeProductCount \in IncludeArgs :
        /\ request' = [op |-> "getCategories", parentId |-> parentId,
                       includeProductCount |-> includeProductCount]
        /\ response' = [categories |->
                           getCategories(categories, products, parentId, includeProductCount)]
        /\ UNCHANGED <<products, categories>>

GetCategoryById ==
    /\ Idle
    /\ \E id \in CategoryIdArgs, includeProductCount \in IncludeArgs :
        /\ request' = [op |-> "getCategoryById", id |-> id,
                       includeProductCount |-> includeProductCount]
        /\ response' = [category |->
                           getCategoryById(categories, products, id, includeProductCount)]
        /\ UNCHANGED <<products, categories>>

GetCategoryProducts ==
    /\ Idle
    /\ \E categoryId \in CategoryIdArgs, pagination \in PaginationParams :
        /\ request' = [op |-> "getCategoryProducts", categoryId |-> categoryId,
                       pagination |-> pagination]
        /\ response' = getCategoryProducts(products, categoryId,
                                           pagination.page, pagination.limit)
        /\ UNCHANGED <<products, categories>>

GetCategoryPriceRange ==
    /\ Idle
    /\ \E categoryId \in CategoryIdArgs :
        /\ request' = [op |-> "getCategoryPriceRange", categoryId |-> categoryId]
        /\ response' = [priceRange |-> getCategoryPriceRange(products, categoryId)]
        /\ UNCHANGED <<products, categories>>

\* the caller takes the value returned; the repository serves the next call
Return ==
    /\ ~Idle
    /\ request' = [op |-> "none"]
    /\ response' = [op |-> "none"]
    /\ UNCHANGED <<products, categories>>

Next ==
    \/ GetProducts
    \/ SearchProducts
    \/ GetProductById
    \/ GetProductRecommendations
    \/ GetProductAvailability
    \/ GetPopularProducts
    \/ GetCategories
    \/ GetCategoryById
    \/ GetCategoryProducts
    \/ GetCategoryPriceRange
    \/ Return

Spec == Init /\ [][Next]_vars

---------------------------------------------------------------------------
(* Vocabulary of the properties, written from the specification *)

\* the indices of a sequence, and the index of product x in the store
Indices(seq) == 1..Len(seq)
StoreIndex(x) == CHOOSE i \in Indices(products) : products[i] = x

\* ceil(n / d) for d >= 1, as the least number of pages of d that hold n
Ceiling(n, d) == CHOOSE k \in 0..n : k * d >= n /\ (k = 0 \/ (k - 1) * d < n)

\* items [from, from + count) of a sequence, counted from 0, cut at its end
Window(seq, from, count) ==
    [i \in 1..(IF Len(seq) - from < 0 THEN 0
               ELSE IF Len(seq) - from < count THEN Len(seq) - from
               ELSE count) |-> seq[from + i]]

\* the pages 1..n of a paginated call, one after the other
RECURSIVE ConcatPages(_, _)
ConcatPages(pageOf, n) ==
    IF n = 0 THEN <<>> ELSE ConcatPages(pageOf, n - 1) \o pageOf[n]

\* two letters that differ at most in case; a text that holds q ignoring case
SameLetter(c, d) == LetterIndex(c) = LetterIndex(d)
ContainsIgnoringCase(text, q) ==
    \E at \in 0..(Len(text) - Len(q)) :
        \A k \in 1..Len(q) : SameLetter(text[at + k], q[k])
EqualIgnoringCase(s, t) ==
    Len(s) = Len(t) /\ \A k \in 1..Len(s) : SameLetter(s[k], t[k])

\* the filter predicates of a request that are present, as one conjunction
Satisfies(p, filters) ==
    /\ Truthy(filters.category) =>
           \E c \in filters.category : p.category = c \/ p.subcategory = {c}
    /\ TruthyText(filters.brand) =>
           \E b \in filters.brand : EqualIgnoringCase(p.brand, b)
    /\ filters.inStock => p.inStock
    /\ \A lo \in filters.minPrice : lo <= p.price
    /\ \A hi \in filters.maxPrice : p.price <= hi

\* the array getProducts slices: the store copied, filtered and sorted
FilteredSorted(filters) ==
    ApplySort(ApplyFilters(CopyOfStore(products), filters), filters).items

---------------------------------------------------------------------------
(* C1: pagination partitions the result *)

GetProductsPage(filters, limit) ==
    [p \in 1..(MaxProducts + 1) |->
        getProducts(products, filters, [page |-> p, limit |-> limit]).value.products]

SearchPage(searchFilters, limit) ==
    [p \in 1..(MaxProducts + 1) |->
        searchProducts(products, searchFilters, [page |-> p, limit |-> limit]).value.products]

CategoryPage(categoryId, limit) ==
    [p \in 1..(MaxProducts + 1) |->
        getCategoryProducts(products, categoryId, p, limit).products]

\* C1: for every store, filter set, page p >= 1 and limit l >= 1, getProducts,
\* getCategoryProducts and searchProducts return at most l products, and the
\* pages 1..totalPages, one after the other, are the full filtered (and
\* sorted) sequence: every product of it exactly once, none missing.
C1_PagesPartitionResult ==
    /\ request.op = "getProducts" =>
        /\ Len(response.products) <= request.pagination.limit
        /\ ConcatPages(GetProductsPage(request.filters, request.pagination.limit),
                       response.meta.totalPages)
             = FilteredSorted(request.filters)
        /\ request.pagination.page <= response.meta.totalPages =>
             response.products
               = GetProductsPage(request.filters, request.pagination.limit)[request.pagination.page]
    /\ request.op = "searchProducts" =>
        /\ Len(response.products) <= request.pagination.limit
        /\ ConcatPages(SearchPage(request.searchFilters, request.pagination.limit),
                       response.meta.totalPages)
             = SortByRelevance(SearchResults(products, request.searchFilters),
                               QueryOf(request.searchFilters)).items
    /\ request.op = "getCategoryProducts" =>
        /\ Len(response.products) <= request.pagination.limit
        /\ ConcatPages(CategoryPage(request.categoryId, request.pagination.limit),
                       response.meta.totalPages)
             = SelectSeq(products, LAMBDA p : MatchesCategory(p, request.categoryId))

\* a middle page of three has been served
C1_Witness ==
    /\ request.op = "getProducts"
    /\ request.pagination.page = 2
    /\ response.meta.totalPages = 3
    /\ Len(response.products) = 1

---------------------------------------------------------------------------
(* C2: filter, then sort, then slice; the pagination metadata *)

ElectronicsScenarioRequest ==
    /\ request.op = "getProducts"
    /\ request.filters = [category |-> {"electronics"}, brand |-> {}, inStock |-> FALSE,
                          minPrice |-> {}, maxPrice |-> {},
                          sortBy |-> {"price"}, sortOrder |-> {"desc"}]
    /\ request.pagination = [page |-> 1, limit |-> 2]
    /\ { products[i].price : i \in { j \in Indices(products) :
                                       products[j].category = "electronics" } }
         = {999, 1599, 50}
    /\ Cardinality({ j \in Indices(products) : products[j].category = "electronics" }) = 3

\* C2: for page p >= 1 and limit l >= 1 the response of getProducts is the
\* slice [(p-1)*l, (p-1)*l + l) of the filtered-and-sorted sequence, with
\* total the size of the filtered set, totalPages = ceil(total / l),
\* hasNext = (p < totalPages) and hasPrev = (p > 1); three electronics products
\* priced 999, 1599, 50 queried with category=electronics, sort_by=price,
\* sort_order=desc, page=1, limit=2 give [1599, 999], total 3, totalPages 2,
\* hasNext true, hasPrev false.
C2_FilterSortSlice ==
    /\ request.op = "getProducts" =>
        LET p == request.pagination.page
            l == request.pagination.limit
            full == FilteredSorted(request.filters)
        IN  /\ response.products = Window(full, (p - 1) * l, l)
            /\ response.meta.page = p
            /\ response.meta.limit = l
            /\ response.meta.total
                 = Cardinality({ i \in Indices(products) :
                                   Satisfies(products[i], request.filters) })
            /\ response.meta.totalPages = Ceiling(response.meta.total, l)
            /\ response.meta.hasNext = (p < Ceiling(response.meta.total, l))
            /\ response.meta.hasPrev = (p > 1)
    /\ ElectronicsScenarioRequest =>
        /\ [i \in Indices(response.products) |-> response.products[i].price]
             = <<1599, 999>>
        /\ response.meta.total = 3
        /\ response.meta.totalPages = 2
        /\ response.meta.hasNext = TRUE
        /\ response.meta.hasPrev = FALSE

\* the scenario of the specification has been served
C2_Witness == ElectronicsScenarioRequest

---------------------------------------------------------------------------
(* C3: the filters are one conjunction *)

\* the category, brand and price steps applied in each of their six orders
ByPrice(a, filters) == ByMaxPrice(ByMinPrice(a, filters), filters)
FilterOrders(a, filters) ==
    { ByPrice(ByBrand(ByCategory(a, filters), filters), filters).items,
      ByBrand(ByPrice(ByCategory(a, filters), filters), filters).items,
      ByPrice(ByCategory(ByBrand(a, filters), filters), filters).items,
      ByCategory(ByPrice(ByBrand(a, filters), filters), filters).items,
      ByBrand(ByCategory(ByPrice(a, filters), filters), filters).items,
      ByCategory(ByBrand(ByPrice(a, filters), filters), filters).items }

\* C3: getProducts keeps exactly the products that satisfy the conjunction of
\* the predicates present (category equals category or subcategory; brand
\* equal ignoring case; inStock only when true; minPrice <= price <= maxPrice
\* inclusive; none present, every product passes), so the category, brand and
\* price filters give the same result in any order.
C3_FiltersAreConjunction ==
    request.op = "getProducts" =>
        /\ ApplyFilters(StoreArray(products), request.filters).items
             = SelectSeq(products, LAMBDA p : Satisfies(p, request.filters))
        /\ \A i \in Indices(response.products) :
             Satisfies(response.products[i], request.filters)
        /\ response.meta.total
             = Cardinality({ i \in Indices(products) :
                               Satisfies(products[i], request.filters) })
        /\ FilterOrders(StoreArray(products), [request.filters EXCEPT !.inStock = FALSE])
             = { SelectSeq(products,
                           LAMBDA p : Satisfies(p, [request.filters EXCEPT !.inStock = FALSE])) }

\* a brand written in another case, a price bound met exactly, and a request
\* that keeps some products of the store and drops others
C3_Witness ==
    /\ request.op = "getProducts"
    /\ request.filters.brand = {<<"A", "P">>}
    /\ request.filters.maxPrice = {999}
    /\ response.meta.total = 1
    /\ Len(products) = 3
    /\ response.products # <<>>
    /\ response.products[1].price = 999

---------------------------------------------------------------------------
(* C4: descending by negation, ties in store order *)

\* the field a sort key orders by
KeyOf(sortBy, p) ==
    CASE sortBy = "price"      -> <<p.price>>
      [] sortBy = "rating"     -> <<p.rating>>
      [] sortBy = "created_at" -> <<p.createdAt.y, p.createdAt.m, p.createdAt.d>>
      [] sortBy = "name"       -> [i \in 1..Len(p.name) |-> LetterIndex(p.name[i])]

\* x is before y in a sequence that holds both once
Before(seq, x, y) ==
    \E i, j \in Indices(seq) : i < j /\ seq[i] = x /\ seq[j] = y

\* C4: for every sort key the descending result of getProducts is the
\* ascending comparison negated, not the ascending sequence reversed:
\* products with different keys are in the reverse relative order of the
\* ascending result, products with equal keys are in store order in both.
C4_DescendingByNegation ==
    request.op = "getProducts" =>
        LET sortBy == Val(request.filters.sortBy)
            asc  == FilteredSorted([request.filters EXCEPT !.sortOrder = {"asc"}])
            desc == FilteredSorted([request.filters EXCEPT !.sortOrder = {"desc"}])
            mine == IF request.filters.sortOrder = {"desc"} THEN desc ELSE asc
            kept == { asc[i] : i \in Indices(asc) }
        IN  /\ { desc[i] : i \in Indices(desc) } = kept
            /\ Len(desc) = Len(asc)
            /\ \A x, y \in kept :
                 x # y =>
                   IF KeyOf(sortBy, x) # KeyOf(sortBy, y)
                   THEN Before(asc, x, y) <=> Before(desc, y, x)
                   ELSE /\ Before(asc, x, y) <=> StoreIndex(x) < StoreIndex(y)
                        /\ Before(desc, x, y) <=> StoreIndex(x) < StoreIndex(y)
            /\ \A i, j \in Indices(response.products) :
                 i < j => Before(mine, response.products[i], response.products[j])

\* a descending page that holds two products of equal rating, in store
\* order, ahead of a product of lower rating that the store holds first
C4_Witness ==
    /\ request.op = "getProducts"
    /\ request.filters.sortBy = {"rating"}
    /\ request.filters.sortOrder = {"desc"}
    /\ Len(response.products) = 2
    /\ response.products[1].rating = response.products[2].rating
    /\ StoreIndex(response.products[1]) < StoreIndex(response.products[2])
    /\ response.meta.total = 3
    /\ products[1].rating < response.products[1].rating

---------------------------------------------------------------------------
(* C5: the operations leave the store alone *)

\* C5: after any sequence of repository operations with any arguments the
\* product store and the category forest are unchanged: same records, same
\* field values, same order; every sort runs on a copy.
C5_StoreUnchanged ==
    [][products' = products /\ categories' = categories]_vars

\* an unfiltered getProducts has sorted its array into another order than
\* the store's
C5_Witness ==
    /\ request.op = "getProducts"
    /\ ~Truthy(request.filters.category)
    /\ ~TruthyText(request.filters.brand)
    /\ ~request.filters.inStock
    /\ request.filters.minPrice = {}
    /\ request.filters.maxPrice = {}
    /\ request.pagination.page = 1
    /\ Len(products) >= 2
    /\ response.products[1] # products[1]

---------------------------------------------------------------------------
(* C6, C7, C8: free-text search *)

\* a product the specification says a search matches
Matches(p, searchFilters) ==
    LET q == IF searchFilters.query = {} THEN <<>> ELSE Val(searchFilters.query)
    IN  /\ \/ ContainsIgnoringCase(p.name, q)
           \/ ContainsIgnoringCase(p.description, q)
           \/ \E t \in Indices(p.tags) : ContainsIgnoringCase(p.tags[t], q)
        /\ Truthy(searchFilters.category) =>
               \E c \in searchFilters.category : p.category = c \/ p.subcategory = {c}

\* the matches of the request being served, in store order
Matched == SelectSeq(products, LAMBDA p : Matches(p, request.searchFilters))

\* C6: searchProducts matches a product exactly when the query, compared
\* case-insensitively, is a substring of its name, of its description or of
\* one of its tags, and (when a category is given) its category or
\* subcategory equals it; for the empty query every product matches and the
\* result keeps store order, with no relevance re-ordering.
C6_SearchMatches ==
    request.op = "searchProducts" =>
        LET p == request.pagination.page
            l == request.pagination.limit
        IN  /\ SearchResults(products, request.searchFilters).items = Matched
            /\ response.meta.total = Len(Matched)
            /\ \A i \in Indices(response.products) :
                 Matches(response.products[i], request.searchFilters)
            /\ request.searchFilters.query = {<<>>} =>
                 /\ response.products = Window(Matched, (p - 1) * l, l)
                 /\ ~Truthy(request.searchFilters.category) =>
                      response.meta.total = Len(products)

\* a query in another case than the text has matched some products of the
\* store, one of them through a tag only, and left others out
C6_Witness ==
    /\ request.op = "searchProducts"
    /\ request.searchFilters.query = {<<"c">>}
    /\ response.meta.total = 2
    /\ Len(products) = 3
    /\ \E i \in Indices(response.products) : response.products[i].name = <<"C", "d">>
    /\ \E i \in Indices(response.products) :
         /\ ~ContainsIgnoringCase(response.products[i].name, <<"c">>)
         /\ ~ContainsIgnoringCase(response.products[i].description, <<"c">>)

\* the relevance the specification gives a match
Relevance(p, q) ==
    (IF ContainsIgnoringCase(p.name, q) THEN 2 ELSE 0)
    + (IF ContainsIgnoringCase(p.description, q) THEN 1 ELSE 0)

\* C7: for a non-empty query the matches are in non-increasing order of
\* score = 2 (query in the name) + 1 (query in the description), a match
\* through a tag only scoring 0; the order is that of the whole matched set,
\* taken before it is sliced into pages.
C7_RelevanceOrder ==
    (request.op = "searchProducts" /\ TruthyText(request.searchFilters.query)) =>
        LET q == Val(request.searchFilters.query)
            offset == (request.pagination.page - 1) * request.pagination.limit
        IN  \A i \in Indices(response.products) :
              LET mine == Relevance(response.products[i], q)
              IN  /\ Cardinality({ k \in Indices(Matched) :
                                     Relevance(Matched[k], q) > mine }) <= offset + i - 1
                  /\ Cardinality({ k \in Indices(Matched) :
                                     Relevance(Matched[k], q) >= mine }) >= offset + i
                  /\ \A j \in Indices(response.products) :
                       i < j => mine >= Relevance(response.products[j], q)

\* the second page of a search holds a match through a tag only, after a
\* first page of name or description matches that the store holds after it
C7_Witness ==
    /\ request.op = "searchProducts"
    /\ request.searchFilters.query = {<<"A">>}
    /\ request.pagination = [page |-> 2, limit |-> 2]
    /\ response.products # <<>>
    /\ Relevance(response.products[1], <<"A">>) = 0
    /\ response.products[1] = products[1]

\* the values of a field over the matches
ValuesOf(Field(_)) == { Field(Matched[k]) : k \in Indices(Matched) }
CountOf(Field(_), v) == Cardinality({ k \in Indices(Matched) : Field(Matched[k]) = v })

\* a facet list holds each value of the matches once, with its count
FacetsAre(facetList, Field(_)) ==
    /\ { facetList[i].value : i \in Indices(facetList) } = ValuesOf(Field)
    /\ \A i, j \in Indices(facetList) :
         i # j => facetList[i].value # facetList[j].value
    /\ \A i \in Indices(facetList) :
         facetList[i].count = CountOf(Field, facetList[i].value)

\* C8: the facets of searchProducts are computed over the matched set before
\* pagination: each category and each brand carried by a match appears once,
\* with the number of matches that carry it; a value no match carries does
\* not appear; the facets are the same for every page and limit of a query.
C8_FacetsOverMatches ==
    request.op = "searchProducts" =>
        /\ FacetsAre(response.facets.categories, LAMBDA p : p.category)
        /\ FacetsAre(response.facets.brands, LAMBDA p : p.brand)
        /\ \A pagination \in PaginationParams :
             searchProducts(products, request.searchFilters, pagination).value.facets
               = response.facets

\* a page shorter than the matched set, with a facet counting matches that
\* are not on the page
C8_Witness ==
    /\ request.op = "searchProducts"
    /\ request.pagination = [page |-> 2, limit |-> 1]
    /\ response.meta.total = 3
    /\ Len(response.products) = 1
    /\ \E i \in Indices(response.facets.brands) : response.facets.brands[i].count = 2
    /\ Len(response.facets.categories) = 2

---------------------------------------------------------------------------
(* C9: recommendations *)

\* the products the specification lets getProductRecommendations return
Candidates(productId) ==
    { i \in Indices(products) :
        /\ products[i].id # productId
        /\ \E k \in Indices(products) :
             /\ products[k].id = productId
             /\ (products[i].category = products[k].category
                 \/ products[i].brand = products[k].brand) }

\* C9: for a product id that resolves and a limit >= 1,
\* getProductRecommendations returns at most limit products, never the
\* product itself, only products of its category or of its brand, in
\* non-increasing rating order, and they are the highest-rated candidates.
C9_Recommendations ==
    (/\ request.op = "getProductRecommendations"
     /\ \E i \in Indices(products) : products[i].id = request.productId) =>
        LET recommended == response.products
            chosen == { i \in Indices(products) :
                          \E k \in Indices(recommended) : recommended[k] = products[i] }
        IN  /\ Len(recommended) <= request.limit
            /\ \A k \in Indices(recommended) : recommended[k].id # request.productId
            /\ chosen \subseteq Candidates(request.productId)
            /\ Cardinality(chosen) = Len(recommended)
            /\ \A j, k \in Indices(recommended) :
                 j < k => recommended[j].rating >= recommended[k].rating
            /\ \A i \in Candidates(request.productId) \ chosen :
                 /\ Len(recommended) = request.limit
                 /\ \A k \in Indices(recommended) :
                      recommended[k].rating >= products[i].rating

\* one recommendation asked of a product with two candidates: the better
\* rated one, which the store holds last, is returned
C9_Witness ==
    /\ request.op = "getProductRecommendations"
    /\ request.productId = "usb-cable"
    /\ request.limit = 1
    /\ Len(products) = 3
    /\ Cardinality(Candidates("usb-cable")) = 2
    /\ Len(response.products) = 1
    /\ response.products[1] = products[3]

---------------------------------------------------------------------------
(* C10: popular products *)

Popularity(p) == p.rating * p.reviewCount

C11_AvailabilityClassification ==
    request.op = "getProductAvailability" =>
        \A i \in Indices(products) :
            products[i].id = request.productId =>
                \E a \in response.availability :
                    /\ response.availability = {a}
                    /\ a.productId = request.productId
                    /\ a.inStock = products[i].inStock
                    /\ a.stockQuantity = products[i].stockQuantity
                    /\ ~products[i].inStock => a.availability = "out_of_stock"
                    /\ products[i].inStock /\ products[i].stockQuantity > 10
                         => a.availability = "in_stock"
                    /\ products[i].inStock /\ products[i].stockQuantity <= 10
                         => a.availability = "limited_stock"

\* a product in stock with exactly 10 items is answered limited_stock, in a
\* store that also holds a product in stock with 0 items and a product
\* that is not in stock although 20 items are counted
C11_Witness ==
    /\ request.op = "getProductAvailability"
    /\ \E a \in response.availability :
         /\ a.inStock
         /\ a.stockQuantity = 10
         /\ a.availability = "limited_stock"
    /\ \E i \in Indices(products) :
         products[i].inStock /\ products[i].stockQuantity = 0
    /\ \E i \in Indices(products) :
         ~products[i].inStock /\ products[i].stockQuantity = 20

\* the category records of a response: the records of a list and, below
\* each, the records nested in its subcategories
RECURSIVE RecordsOf(_)
RecordsOf(cats) ==
    UNION { {cats[i]} \cup RecordsOf(cats[i].subcategories) : i \in Indices(cats) }

\* the number of store products whose category or subcategory is id
StoreCount(id) ==
    Cardinality({ i \in Indices(products) :
                    products[i].category = id \/ products[i].subcategory = {id} })

\* C13: in every response of getCategories and getCategoryById, whatever
\* includeProductCount is, the productCount of every category record of the
\* response, top-level or nested in subcategories, is the number of store
\* products whose category or subcategory is the record's id.
C13_ProductCountIsComputed ==
    /\ request.op = "getCategories" =>
          \A c \in RecordsOf(response.categories) : c.productCount = StoreCount(c.id)
    /\ request.op = "getCategoryById" =>
          \A top \in response.category :
             \A c \in RecordsOf(<<top>>) : c.productCount = StoreCount(c.id)

---------------------------------------------------------------------------
(* The HTTP servers: routing, controllers and services *)

\* a decimal digit as text, and the number it writes
Digits == <<"0", "1", "2", "3", "4", "5", "6", "7", "8", "9">>
DigitValue(ch) == (CHOOSE d \in 1..10 : Digits[d] = ch) - 1

\* parseInt of a text of digits with an optional leading minus sign; the
\* texts of the requests hold nothing else
RECURSIVE DigitsValue(_)
DigitsValue(s) ==
    IF s = <<>> THEN 0
    ELSE 10 * DigitsValue(SubSeq(s, 1, Len(s) - 1)) + DigitValue(s[Len(s)])

parseInt(s) ==
    IF s[1] = "-" THEN 0 - DigitsValue(Tail(s)) ELSE DigitsValue(s)

\* parseFloat of a text "d" or "d.d", in tenths
parseFloat(s) ==
    LET dot == { i \in 1..Len(s) : s[i] = "." }
    IN  IF dot = {} THEN 10 * parseInt(s)
        ELSE LET at == CHOOSE i \in dot : TRUE
             IN  10 * parseInt(SubSeq(s, 1, at - 1)) + DigitValue(s[at + 1])

\* the fallback taken for the text '0' as well
QueryOrWhenZero(param, fallback) ==
    IF TruthyText(param) /\ param # {<<"0">>} THEN Val(param) ELSE fallback

\* c.req.query(name) || fallback, for a text parameter
QueryOr(param, fallback) == IF TruthyText(param) THEN Val(param) ELSE fallback

\* a route matches a path segment by segment; ':id' matches any segment
RouteMatches(pattern, path) ==
    /\ Len(pattern) = Len(path)
    /\ \A i \in 1..Len(path) : pattern[i] = ":id" \/ pattern[i] = path[i]

\* the handler of the first route registered that matches, the notFound
\* handler when none does
Dispatch(routes, path) ==
    LET hits == { i \in 1..Len(routes) : RouteMatches(routes[i].pattern, path) }
    IN  IF hits = {} THEN "notFound"
        ELSE routes[CHOOSE i \in hits : \A j \in hits : i <= j].handler

Route(pattern, handler) == [pattern |-> pattern, handler |-> handler]

\* the routes of the layered server, in the order of registration
LayeredRoutes ==
    << Route(<<"health">>, "health"),
       Route(<<"api", "v1">>, "apiInfo"),
       Route(<<"api", "v1", "products">>, "getProducts"),
       Route(<<"api", "v1", "products", "search">>, "searchProducts"),
       Route(<<"api", "v1", "products", "popular">>, "getPopularProducts"),
       Route(<<"api", "v1", "products", ":id">>, "getProductById"),
       Route(<<"api", "v1", "products", ":id", "recommendations">>,
             "getProductRecommendations"),
       Route(<<"api", "v1", "products", ":id", "availability">>,
             "getProductAvailability"),
       Route(<<"api", "v1", "categories">>, "getCategories"),
       Route(<<"api", "v1", "categories", ":id">>, "getCategoryById"),
       Route(<<"api", "v1", "categories", ":id", "products">>, "getCategoryProducts"),
       Route(<<"api", "v1", "categories", ":id", "price-range">>,
             "getCategoryPriceRange") >>

\* the routes of the single-file server, in the order of registration
MonolithicRoutes ==
    << Route(<<"health">>, "health"),
       Route(<<"api", "v1">>, "apiInfo"),
       Route(<<"api", "v1", "products">>, "getProducts"),
       Route(<<"api", "v1", "products", "search">>, "searchProducts"),
       Route(<<"api", "v1", "products", ":id">>, "getProductById"),
       Route(<<"api", "v1", "products", ":id", "recommendations">>,
             "getProductRecommendations"),
       Route(<<"api", "v1", "products", ":id", "availability">>,
             "getProductAvailability"),
       Route(<<"api", "v1", "categories">>, "getCategories"),
       Route(<<"api", "v1", "categories", ":id">>, "getCategoryById"),
       Route(<<"api", "v1", "categories", ":id", "products">>, "getCategoryProducts"),
       Route(<<"api", "v1", "products", "popular">>, "getPopularProducts"),
       Route(<<"api", "v1", "categories", ":id", "price-range">>,
             "getCategoryPriceRange") >>

\* c.req.param('id'): the fourth segment of every route with a parameter
PathParam(path) == path[4]

\* JSON.stringify of a body: Infinity and NaN, which totalPages is for a
\* limit of 0, are written as null
stringify(body) ==
    IF "pagination" \in DOMAIN body /\ body.pagination.limit = 0
    THEN [body EXCEPT !.pagination.totalPages = "null"]
    ELSE body

\* c.json(body, status); the handler that answered is kept with the response
json(handler, body, status) ==
    [handler |-> handler, status |-> status, body |-> stringify(body)]

\* how a call of a service ends: with a value, or with an Error thrown; either
\* way with the store as the call leaves it
Returned(store, value) == [thrown |-> FALSE, store |-> store, value |-> value]
Thrown(store, message) == [thrown |-> TRUE, store |-> store, message |-> message]

\* the messages of the errors the services throw, as the texts they are
\* built from
ProductNotFound == <<"Product not found">>
CategoryNotFound == <<"Category not found">>
NoProductsFound(categoryId) == <<"No products found", " in this category: ", categoryId>>

\* the values the services return around what a repository answered
ProductsResponse(r, filters) ==
    Returned(r.store, [data |-> r.value.products, pagination |-> r.value.meta,
                       filters |-> filters])
SearchResponse(r, query) ==
    Returned(r.store, [query |-> query, data |-> r.value.products,
                       pagination |-> r.value.meta, facets |-> r.value.facets])
DataResponse(r) == Returned(r.store, [data |-> r.value])

\* A repository is reached through its interface, and a call of it may be
\* rejected: fault is the message of that rejection, or empty when the call
\* goes through to the in-memory repository.
ProductService_getProducts(store, filters, pagination, fault) ==
    IF fault # {} THEN Thrown(store, Val(fault))
    ELSE ProductsResponse(getProducts(store, filters, pagination), filters)

ProductService_searchProducts(store, searchFilters, pagination, fault) ==
    IF fault # {} THEN Thrown(store, Val(fault))
    ELSE SearchResponse(searchProducts(store, searchFilters, pagination),
                        QueryOf(searchFilters))

ProductService_getProductById(store, id, fault) ==
    IF fault # {} THEN Thrown(store, Val(fault))
    ELSE LET product == getProductById(store, id)
         IN  IF product = {} THEN Thrown(store, ProductNotFound)
             ELSE Returned(store, [data |-> Val(product)])

ProductService_getProductRecommendations(store, productId, limit, fault) ==
    IF fault # {} THEN Thrown(store, Val(fault))
    ELSE IF getProductById(store, productId) = {} THEN Thrown(store, ProductNotFound)
    ELSE DataResponse(getProductRecommendations(store, productId, limit))

ProductService_getProductAvailability(store, productId, fault) ==
    IF fault # {} THEN Thrown(store, Val(fault))
    ELSE LET availability == getProductAvailability(store, productId)
         IN  IF availability = {} THEN Thrown(store, ProductNotFound)
             ELSE Returned(store, [data |-> Val(availability)])

ProductService_getPopularProducts(store, category, limit, minRating, fault) ==
    IF fault # {} THEN Thrown(store, Val(fault))
    ELSE DataResponse(getPopularProducts(store, category, {limit}, {minRating}))

CategoryService_getCategories(forest, store, parentId, includeProductCount, fault) ==
    IF fault # {} THEN Thrown(store, Val(fault))
    ELSE Returned(store, [data |-> getCategories(forest, store, parentId,
                                                 {includeProductCount})])

CategoryService_getCategoryById(forest, store, id, fault) ==
    IF fault # {} THEN Thrown(store, Val(fault))
    ELSE LET category == getCategoryById(forest, store, id, {TRUE})
         IN  IF category = {} THEN Thrown(store, CategoryNotFound)
             ELSE Returned(store, [data |-> Val(category)])

CategoryService_getCategoryProducts(store, categoryId, page, limit, fault) ==
    IF fault # {} THEN Thrown(store, Val(fault))
    ELSE LET r == getCategoryProducts(store, categoryId, page, limit)
         IN  Returned(store, [data |-> r.products, pagination |-> r.meta])

\* the service of getCategoryPriceRange answering a category without
\* products with a record of zeros
CategoryService_getCategoryPriceRangeOfZeros(store, categoryId, fault) ==
    IF fault # {} THEN Thrown(store, Val(fault))
    ELSE LET priceRange == getCategoryPriceRange(store, categoryId)
         IN  IF priceRange = {}
             THEN Returned(store, [data |-> [categoryId |-> categoryId, minPrice |-> 0,
                                             maxPrice |-> 0, averagePrice |-> 0,
                                             productCount |-> 0]])
             ELSE Returned(store, [data |-> Val(priceRange)])

CategoryService_getCategoryPriceRange(store, categoryId, fault) ==
    IF fault # {} THEN Thrown(store, Val(fault))
    ELSE LET priceRange == getCategoryPriceRange(store, categoryId)
         IN  IF priceRange = {} THEN Thrown(store, NoProductsFound(categoryId))
             ELSE Returned(store, [data |-> Val(priceRange)])

\* what a controller hands back: the response and the store as it is left
Handled(store, answer) == [store |-> store, response |-> answer]

\* c.json({ error: 'Internal server error' }, 500)
InternalServerError(handler) == json(handler, [error |-> "Internal server error"], 500)

\* try { return c.json(result) } catch { 500 }
Respond(handler, result) ==
    Handled(result.store,
            IF ~result.thrown THEN json(handler, result.value, 200)
            ELSE InternalServerError(handler))

\* try { return c.json(result) } catch (error) { if (error.message ===
\* notFound) return c.json({ error: notFound }, 404); 500 }
RespondOrNotFound(handler, notFound, result) ==
    Handled(result.store,
            IF ~result.thrown THEN json(handler, result.value, 200)
            ELSE IF result.message = <<notFound>>
            THEN json(handler, [error |-> notFound], 404)
            ELSE InternalServerError(handler))

\* the catch of getCategoryPriceRange: error.message.includes('No products
\* found') is 404 with the category id
RespondOrNoProducts(handler, categoryId, result) ==
    Handled(result.store,
            IF ~result.thrown THEN json(handler, result.value, 200)
            ELSE IF includes(result.message, <<"No products found">>)
            THEN json(handler, [error |-> "No products found in this category",
                                categoryId |-> categoryId], 404)
            ELSE InternalServerError(handler))

ProductController_getProducts(store, query, fault) ==
    LET page == parseInt(QueryOr(query.page, <<"1">>))
        limit == parseInt(QueryOr(query.limit, <<"1", "0">>))
        filters == [category |-> query.category,
                    brand |-> query.brand,
                    inStock |-> (query.in_stock = {"true"}),
                    sortBy |-> IF Truthy(query.sort_by) THEN query.sort_by ELSE {"name"},
                    sortOrder |-> IF Truthy(query.sort_order) THEN query.sort_order
                                  ELSE {"asc"},
                    minPrice |-> IF TruthyText(query.min_price)
                                 THEN {parseInt(Val(query.min_price))} ELSE {},
                    maxPrice |-> IF TruthyText(query.max_price)
                                 THEN {parseInt(Val(query.max_price))} ELSE {}]
    IN  Respond("getProducts",
                ProductService_getProducts(store, filters,
                                           [page |-> page, limit |-> limit], fault))

ProductController_searchProducts(store, query, fault) ==
    LET page == parseInt(QueryOr(query.page, <<"1">>))
        limit == parseInt(QueryOr(query.limit, <<"1", "0">>))
        searchFilters == [query |-> {QueryOr(query.q, <<>>)}, category |-> query.category]
    IN  Respond("searchProducts",
                ProductService_searchProducts(store, searchFilters,
                                              [page |-> page, limit |-> limit], fault))

\* the controller of getProductById answering every error with 500
ProductController_getProductByIdAlways500(store, path, fault) ==
    Respond("getProductById", ProductService_getProductById(store, PathParam(path), fault))

ProductController_getProductById(store, path, fault) ==
    RespondOrNotFound("getProductById", "Product not found",
                      ProductService_getProductById(store, PathParam(path), fault))

ProductController_getProductRecommendations(store, path, query, fault) ==
    RespondOrNotFound("getProductRecommendations", "Product not found",
                      ProductService_getProductRecommendations(
                          store, PathParam(path),
                          parseInt(QueryOr(query.limit, <<"5">>)), fault))

ProductController_getProductAvailability(store, path, fault) ==
    RespondOrNotFound("getProductAvailability", "Product not found",
                      ProductService_getProductAvailability(store, PathParam(path), fault))

ProductController_getPopularProducts(store, query, fault) ==
    Respond("getPopularProducts",
            ProductService_getPopularProducts(
                store, query.category,
                parseInt(QueryOr(query.limit, <<"1", "0">>)),
                parseFloat(QueryOr(query.min_rating, <<"4", ".", "0">>)), fault))

CategoryController_getCategories(forest, store, query, fault) ==
    Respond("getCategories",
            CategoryService_getCategories(forest, store, query.parent_id,
                                          query.include_product_count # {"false"}, fault))

CategoryController_getCategoryById(forest, store, path, fault) ==
    RespondOrNotFound("getCategoryById", "Category not found",
                      CategoryService_getCategoryById(forest, store, PathParam(path), fault))

CategoryController_getCategoryProducts(store, path, query, fault) ==
    Respond("getCategoryProducts",
            CategoryService_getCategoryProducts(
                store, PathParam(path),
                parseInt(QueryOr(query.page, <<"1">>)),
                parseInt(QueryOr(query.limit, <<"1", "0">>)), fault))

CategoryController_getCategoryPriceRange(store, path, fault) ==
    RespondOrNoProducts("getCategoryPriceRange", PathParam(path),
                        CategoryService_getCategoryPriceRange(store, PathParam(path), fault))

\* The handlers of the single-file server.  They work on the product and
\* category arrays themselves, with the statements the layered server
\* spreads over controller, service and repository; the handler of
\* /api/v1/categories answers an unknown parent itself.
MonolithicGetCategories(forest, store, query) ==
    LET includeProductCount == query.include_product_count # {"false"}
        parentCategory == find(forest, LAMBDA c : c.id = Val(query.parent_id))
        result == IF Truthy(query.parent_id) THEN Val(parentCategory).subcategories
                  ELSE forest
    IN  IF Truthy(query.parent_id) /\ parentCategory = {}
        THEN json("getCategories", [error |-> "Parent category not found"], 404)
        ELSE json("getCategories",
                  [data |-> IF includeProductCount
                            THEN [i \in 1..Len(result) |->
                                    WithProductCount(store, result[i])]
                            ELSE result],
                  200)

MonolithicHandler(handler, forest, store, path, query) ==
    CASE handler = "health" ->
           Handled(store, json("health", [status |-> "ok"], 200))
      [] handler = "apiInfo" ->
           Handled(store, json("apiInfo", [name |-> "Catalog API"], 200))
      [] handler = "getProducts" -> ProductController_getProducts(store, query, {})
      [] handler = "searchProducts" -> ProductController_searchProducts(store, query, {})
      [] handler = "getProductById" -> ProductController_getProductById(store, path, {})
      [] handler = "getProductRecommendations" ->
           ProductController_getProductRecommendations(store, path, query, {})
      [] handler = "getProductAvailability" ->
           ProductController_getProductAvailability(store, path, {})
      [] handler = "getCategories" ->
           Handled(store, MonolithicGetCategories(forest, store, query))
      [] handler = "getCategoryById" ->
           CategoryController_getCategoryById(forest, store, path, {})
      [] handler = "getCategoryProducts" ->
           CategoryController_getCategoryProducts(store, path, query, {})
      [] handler = "getPopularProducts" ->
           ProductController_getPopularProducts(store, query, {})
      [] handler = "getCategoryPriceRange" ->
           CategoryController_getCategoryPriceRange(store, path, {})
      [] handler = "notFound" ->
           Handled(store, json("notFound", [error |-> "Endpoint not found"], 404))

---------------------------------------------------------------------------
(* The requests made of the servers *)

\* a request without query parameters
NoQuery ==
    [page |-> {}, limit |-> {}, category |-> {}, brand |-> {}, in_stock |-> {},
     sort_by |-> {}, sort_order |-> {}, min_price |-> {}, max_price |-> {},
     q |-> {}, min_rating |-> {}, parent_id |-> {}, include_product_count |-> {}]

HttpQueries ==
    { NoQuery,
      [NoQuery EXCEPT !.limit = {<<"1">>}],
      [NoQuery EXCEPT !.limit = {<<"0">>}],
      [NoQuery EXCEPT !.page = {<<"2">>}, !.limit = {<<"1">>}],
      [NoQuery EXCEPT !.page = {<<"0">>}, !.limit = {<<"1">>}],
      [NoQuery EXCEPT !.page = {<<"-", "1">>}, !.limit = {<<"1">>}],
      [NoQuery EXCEPT !.category = {"electronics"}, !.min_rating = {<<"4", ".", "5">>}],
      [NoQuery EXCEPT !.q = {<<"p">>}],
      [NoQuery EXCEPT !.sort_by = {"price"}, !.sort_order = {"desc"},
                      !.in_stock = {"true"}, !.min_price = {<<"5", "0">>}],
      [NoQuery EXCEPT !.include_product_count = {"false"}] }
    \cup { [NoQuery EXCEPT !.parent_id = {c}] : c \in CategoryIdArgs }

HttpPaths ==
    { <<"health">>, <<"api", "v1">>, <<"api", "v1", "orders">>,
      <<"api", "v1", "products">>, <<"api", "v1", "products", "search">>,
      <<"api", "v1", "products", "popular">>, <<"api", "v1", "categories">> }
    \cup { <<"api", "v1", "products", id>> : id \in ProductIdArgs }
    \cup { <<"api", "v1", "products", id, "recommendations">> : id \in ProductIdArgs }
    \cup { <<"api", "v1", "products", id, "availability">> : id \in ProductIdArgs }
    \cup { <<"api", "v1", "categories", id>> : id \in CategoryIdArgs }
    \cup { <<"api", "v1", "categories", id, "products">> : id \in CategoryIdArgs }
    \cup { <<"api", "v1", "categories", id, "price-range">> : id \in CategoryIdArgs }

\* the call of a repository goes through, or is rejected with this message
RepositoryFaults == { {}, {<<"Database unavailable">>} }

---------------------------------------------------------------------------
(* The servers as a state machine: one request is answered at a time *)

\* GET path?query arrives at a server and is answered as handled
Answer(server, path, query, fault, handled) ==
    /\ products' = handled.store
    /\ request' = [op |-> "GET", server |-> server, path |-> path,
                   query |-> query, fault |-> fault]
    /\ response' = handled.response
    /\ UNCHANGED categories

\* the routes of the layered server answered without a controller
ServeHealth ==
    /\ Idle
    /\ \E path \in HttpPaths, query \in HttpQueries :
        /\ Dispatch(LayeredRoutes, path) = "health"
        /\ Answer("layered", path, query, {},
                  Handled(products, json("health", [status |-> "ok"], 200)))

ServeApiInfo ==
    /\ Idle
    /\ \E path \in HttpPaths, query \in HttpQueries :
        /\ Dispatch(LayeredRoutes, path) = "apiInfo"
        /\ Answer("layered", path, query, {},
                  Handled(products, json("apiInfo", [name |-> "Catalog API"], 200)))

ServeNotFound ==
    /\ Idle
    /\ \E path \in HttpPaths, query \in HttpQueries :
        /\ Dispatch(LayeredRoutes, path) = "notFound"
        /\ Answer("layered", path, query, {},
                  Handled(products,
                          json("notFound", [error |-> "Endpoint not found"], 404)))

\* the routes of the layered server answered by a controller
ServeGetProducts ==
    /\ Idle
    /\ \E path \in HttpPaths, query \in HttpQueries, fault \in RepositoryFaults :
        /\ Dispatch(LayeredRoutes, path) = "getProducts"
        /\ Answer("layered", path, query, fault,
                  ProductController_getProducts(products, query, fault))

ServeSearchProducts ==
    /\ Idle
    /\ \E path \in HttpPaths, query \in HttpQueries, fault \in RepositoryFaults :
        /\ Dispatch(LayeredRoutes, path) = "searchProducts"
        /\ Answer("layered", path, query, fault,
                  ProductController_searchProducts(products, query, fault))

ServeGetPopularProducts ==
    /\ Idle
    /\ \E path \in HttpPaths, query \in HttpQueries, fault \in RepositoryFaults :
        /\ Dispatch(LayeredRoutes, path) = "getPopularProducts"
        /\ Answer("layered", path, query, fault,
                  ProductController_getPopularProducts(products, query, fault))

ServeGetProductById ==
    /\ Idle
    /\ \E path \in HttpPaths, query \in HttpQueries, fault \in RepositoryFaults :
        /\ Dispatch(LayeredRoutes, path) = "getProductById"
        /\ Answer("layered", path, query, fault,
                  ProductController_getProductById(products, path, fault))

ServeGetProductRecommendations ==
    /\ Idle
    /\ \E path \in HttpPaths, query \in HttpQueries, fault \in RepositoryFaults :
        /\ Dispatch(LayeredRoutes, path) = "getProductRecommendations"
        /\ Answer("layered", path, query, fault,
                  ProductController_getProductRecommendations(products, path, query, fault))

ServeGetProductAvailability ==
    /\ Idle
    /\ \E path \in HttpPaths, query \in HttpQueries, fault \in RepositoryFaults :
        /\ Dispatch(LayeredRoutes, path) = "getProductAvailability"
        /\ Answer("layered", path, query, fault,
                  ProductController_getProductAvailability(products, path, fault))

ServeGetCategories ==
    /\ Idle
    /\ \E path \in HttpPaths, query \in HttpQueries, fault \in RepositoryFaults :
        /\ Dispatch(LayeredRoutes, path) = "getCategories"
        /\ Answer("layered", path, query, fault,
                  CategoryController_getCategories(categories, products, query, fault))

ServeGetCategoryById ==
    /\ Idle
    /\ \E path \in HttpPaths, query \in HttpQueries, fault \in RepositoryFaults :
        /\ Dispatch(LayeredRoutes, path) = "getCategoryById"
        /\ Answer("layered", path, query, fault,
                  CategoryController_getCategoryById(categories, products, path, fault))

ServeGetCategoryProducts ==
    /\ Idle
    /\ \E path \in HttpPaths, query \in HttpQueries, fault \in RepositoryFaults :
        /\ Dispatch(LayeredRoutes, path) = "getCategoryProducts"
        /\ Answer("layered", path, query, fault,
                  CategoryController_getCategoryProducts(products, path, query, fault))

ServeGetCategoryPriceRange ==
    /\ Idle
    /\ \E path \in HttpPaths, query \in HttpQueries, fault \in RepositoryFaults :
        /\ Dispatch(LayeredRoutes, path) = "getCategoryPriceRange"
        /\ Answer("layered", path, query, fault,
                  CategoryController_getCategoryPriceRange(products, path, fault))

\* the single-file server answers with the handler its routes dispatch to
MonolithicServe ==
    /\ Idle
    /\ \E path \in HttpPaths, query \in HttpQueries :
        Answer("monolithic", path, query, {},
               MonolithicHandler(Dispatch(MonolithicRoutes, path),
                                 categories, products, path, query))

HttpNext ==
    \/ ServeHealth
    \/ ServeApiInfo
    \/ ServeNotFound
    \/ ServeGetProducts
    \/ ServeSearchProducts
    \/ ServeGetPopularProducts
    \/ ServeGetProductById
    \/ ServeGetProductRecommendations
    \/ ServeGetProductAvailability
    \/ ServeGetCategories
    \/ ServeGetCategoryById
    \/ ServeGetCategoryProducts
    \/ ServeGetCategoryPriceRange
    \/ MonolithicServe
    \/ Return

HttpSpec == Init /\ [][HttpNext]_vars

---------------------------------------------------------------------------
(* Properties of the servers *)

\* the request being answered was dispatched to this handler
AnsweredBy(handler) == request.op = "GET" /\ response.handler = handler

\* the indices of the store products whose category or subcategory is id
InCategory(id) ==
    { i \in Indices(products) :
        products[i].category = id \/ products[i].subcategory = {id} }

\* h hundredths is the mean of sum over n rounded to two decimal places
IsMeanToTwoPlaces(h, sum, n) ==
    /\ 2 * (h * n - 100 * sum) <= n
    /\ 2 * (100 * sum - h * n) <= n

\* C12: getCategoryPriceRange, over the products whose category or
\* subcategory is the id, answers the least price, the greatest price, the
\* mean rounded to two decimal places and the number of those products
\* (prices 10, 20 and 30 give a mean of 20.00); when no product matches, the
\* repository answers null and the server 404, never a record of zeros.
C12_PriceRange ==
    /\ RoundedAverage(10 + 20 + 30, 3) = 2000
    /\ AnsweredBy("getCategoryPriceRange") /\ request.fault = {} =>
         LET id == request.path[4]
             matching == InCategory(id)
             range == getCategoryPriceRange(products, id)
         IN  IF matching = {}
             THEN /\ range = {}
                  /\ response.status = 404
                  /\ "data" \notin DOMAIN response.body
             ELSE /\ response.status = 200
                  /\ range = { response.body.data }
                  /\ response.body.data.categoryId = id
                  /\ response.body.data.productCount = Cardinality(matching)
                  /\ \E i \in matching : response.body.data.minPrice = products[i].price
                  /\ \E i \in matching : response.body.data.maxPrice = products[i].price
                  /\ \A i \in matching :
                       /\ response.body.data.minPrice <= products[i].price
                       /\ response.body.data.maxPrice >= products[i].price
                  /\ IsMeanToTwoPlaces(response.body.data.averagePrice,
                                       Sum([k \in 1..Len(products) |->
                                              IF k \in matching THEN products[k].price
                                              ELSE 0]),
                                       Cardinality(matching))

\* the price range of three products priced 999, 1599 and 50, whose mean
\* 882.666... is answered as 882.67
C12_Witness ==
    /\ AnsweredBy("getCategoryPriceRange")
    /\ request.server = "layered"
    /\ response.status = 200
    /\ response.body.data.productCount = 3
    /\ response.body.data.minPrice = 50
    /\ response.body.data.maxPrice = 1599
    /\ response.body.data.averagePrice = 88267

\* the by-id handlers, and whether the id of the request resolves: to a
\* product of the store, or to a category of the category list
ByIdHandlers ==
    { "getProductById", "getProductRecommendations", "getProductAvailability",
      "getCategoryById" }

IdResolves ==
    IF response.handler = "getCategoryById"
    THEN \E i \in Indices(categories) : categories[i].id = request.path[4]
    ELSE \E i \in Indices(products) : products[i].id = request.path[4]

\* C14: a by-id endpoint (product, recommendations, availability, category)
\* answers 200 when the id resolves, GET /api/v1/products/:id with the store
\* product unchanged; when the id does not resolve the repository answers
\* an absence, and the response is 404 with an {error} body; when an error
\* other than not-found is raised below the controller the response is 500
\* with {error: 'Internal server error'}, given by the controller itself.
C14_ByIdResponses ==
    request.op = "GET" /\ response.handler \in ByIdHandlers =>
        IF request.fault # {}
        THEN /\ response.status = 500
             /\ response.body = [error |-> "Internal server error"]
        ELSE IF IdResolves
        THEN /\ response.status = 200
             /\ response.handler = "getProductById" =>
                    \E i \in Indices(products) :
                       /\ products[i].id = request.path[4]
                       /\ response.body = [data |-> products[i]]
        ELSE /\ response.status = 404
             /\ DOMAIN response.body = {"error"}
             /\ response.handler = "getCategoryById" =>
                    getCategoryById(categories, products, request.path[4], {TRUE}) = {}
             /\ response.handler # "getCategoryById" =>
                    /\ getProductById(products, request.path[4]) = {}
                    /\ getProductAvailability(products, request.path[4]) = {}

\* the recommendations of a product that is not in a store of three
\* products are answered 404 by the layered server
C14_Witness ==
    /\ AnsweredBy("getProductRecommendations")
    /\ request.server = "layered"
    /\ request.fault = {}
    /\ Len(products) = 3
    /\ \A i \in Indices(products) : products[i].id # request.path[4]
    /\ response.status = 404
    /\ response.body = [error |-> "Product not found"]

\* the parent_id of the request names a category, top-level or nested
ParentExists ==
    \E c \in RecordsOf(categories) : request.query.parent_id = {c.id}

\* C15: GET /api/v1/categories with a parent_id that matches no category is
\* answered 404; it is answered 200, with the subcategories, only when the
\* parent exists.
C15_UnknownParentIs404 ==
    AnsweredBy("getCategories") /\ request.fault = {}
      /\ Truthy(request.query.parent_id) =>
        /\ ~ParentExists => response.status = 404
        /\ response.status = 200 => ParentExists

\* C16: GET /api/v1/products/popular is answered by the handler of the
\* popular products, with 200 and {data: [Product]}; as the routes are
\* registered it is never taken by /api/v1/products/:id, and neither is
\* GET /api/v1/products/search.
C16_FixedRoutesNotCaptured ==
    request.op = "GET" =>
        /\ request.path = <<"api", "v1", "products", "popular">> =>
             /\ response.handler = "getPopularProducts"
             /\ request.fault = {} =>
                  /\ response.status = 200
                  /\ DOMAIN response.body = {"data"}
        /\ request.path = <<"api", "v1", "products", "search">> =>
             response.handler = "searchProducts"

---------------------------------------------------------------------------
(* The API client of the tool servers *)

\* app.fetch of the layered server: the response of the handler its routes
\* dispatch to
LayeredApp(forest, store, path, query, fault) ==
    LET handler == Dispatch(LayeredRoutes, path)
    IN  CASE handler = "health" ->
               Handled(store, json("health", [status |-> "ok"], 200))
          [] handler = "apiInfo" ->
               Handled(store, json("apiInfo", [name |-> "Catalog API"], 200))
          [] handler = "getProducts" -> ProductController_getProducts(store, query, fault)
          [] handler = "searchProducts" ->
               ProductController_searchProducts(store, query, fault)
          [] handler = "getPopularProducts" ->
               ProductController_getPopularProducts(store, query, fault)
          [] handler = "getProductById" ->
               ProductController_getProductById(store, path, fault)
          [] handler = "getProductRecommendations" ->
               ProductController_getProductRecommendations(store, path, query, fault)
          [] handler = "getProductAvailability" ->
               ProductController_getProductAvailability(store, path, fault)
          [] handler = "getCategories" ->
               CategoryController_getCategories(forest, store, query, fault)
          [] handler = "getCategoryById" ->
               CategoryController_getCategoryById(forest, store, path, fault)
          [] handler = "getCategoryProducts" ->
               CategoryController_getCategoryProducts(store, path, query, fault)
          [] handler = "getCategoryPriceRange" ->
               CategoryController_getCategoryPriceRange(store, path, fault)
          [] handler = "notFound" ->
               Handled(store, json("notFound", [error |-> "Endpoint not found"], 404))

\* the values of tool arguments: a JavaScript value as its type and the
\* text that String(value) gives ('5' for 5, '4.5' for 4.5, 'true' for true)
Str(s) == [type |-> "string", value |-> s]
Num(n) == [type |-> "number", value |-> ToString(n)]
Decimal(text) == [type |-> "number", value |-> text]
Bool(b) == [type |-> "boolean", value |-> IF b THEN "true" ELSE "false"]

\* whether an optional argument is truthy: undefined, '', 0 and false are not
TruthyArg(arg) ==
    /\ arg # {}
    /\ \A v \in arg : CASE v.type = "string" -> v.value # ""
                        [] v.type = "number" -> v.value # "0"
                        [] v.type = "boolean" -> v.value = "true"

\* `${arg}` and arg.toString(): the text of an argument
Text(arg) == IF arg = {} THEN "undefined" ELSE Val(arg).value

\* the characters of a text
Chars(text) == [i \in 1..Len(text) |-> SubSeq(text, i, i)]

\* URLSearchParams: the pairs appended, and toString() joining name=value
\* with '&' (the names and values of the requests need no escaping)
RECURSIVE SearchParamsText(_)
SearchParamsText(pairs) ==
    IF pairs = <<>> THEN ""
    ELSE pairs[1][1] \o "=" \o pairs[1][2]
         \o (IF Len(pairs) > 1 THEN "&" ELSE "") \o SearchParamsText(Tail(pairs))

RECURSIVE PathText(_)
PathText(path) == IF path = <<>> THEN "" ELSE "/" \o path[1] \o PathText(Tail(path))

\* an endpoint: the path and the query pairs an endpoint text is built from
Endpoint(path, pairs, mark) ==
    [path |-> path, pairs |-> pairs,
     text |-> PathText(path) \o mark \o SearchParamsText(pairs)]

\* c.req.query(name) at the server: the value of the first pair of that name
QueryParam(pairs, name) ==
    LET hits == { i \in 1..Len(pairs) : pairs[i][1] = name }
    IN  IF hits = {} THEN {}
        ELSE { pairs[CHOOSE i \in hits : \A j \in hits : i <= j][2] }

\* the query of the request as the controllers read it: numbers and the
\* texts that are searched arrive as characters
CharsOf(param) == { Chars(v) : v \in param }
ServerQuery(pairs) ==
    [page |-> CharsOf(QueryParam(pairs, "page")),
     limit |-> CharsOf(QueryParam(pairs, "limit")),
     category |-> QueryParam(pairs, "category"),
     brand |-> CharsOf(QueryParam(pairs, "brand")),
     in_stock |-> QueryParam(pairs, "in_stock"),
     sort_by |-> QueryParam(pairs, "sort_by"),
     sort_order |-> QueryParam(pairs, "sort_order"),
     min_price |-> CharsOf(QueryParam(pairs, "min_price")),
     max_price |-> CharsOf(QueryParam(pairs, "max_price")),
     q |-> CharsOf(QueryParam(pairs, "q")),
     min_rating |-> CharsOf(QueryParam(pairs, "min_rating")),
     parent_id |-> QueryParam(pairs, "parent_id"),
     include_product_count |-> QueryParam(pairs, "include_product_count")]

\* constructor(baseUrl = 'http://localhost:3001')
BaseUrl == "http://localhost:3001"

\* how a call of the client ends, with the HTTP requests it made: each with
\* its URL, the status answered and the error text of a body that is not ok,
\* none of both when the request failed in transport
Fetched(url, status, error) == << [url |-> url, status |-> status, error |-> error] >>
Resolved(store, value, fetches) ==
    [thrown |-> FALSE, store |-> store, value |-> value, fetches |-> fetches]
Rejected(store, message, fetches) ==
    [thrown |-> TRUE, store |-> store, message |-> message, fetches |-> fetches]

\* the message of the error fetch rejects with when the server cannot be
\* reached
FetchFailed == "fetch failed"

\* throw new Error(`API Error (${response.status}): ${errorData.error}`)
ApiError(status, error) == "API Error (" \o ToString(status) \o "): " \o error

\* CatalogApiClient.request answering every failure as a value instead of
\* throwing
Swallowed(store, url, net, handled) ==
    IF ~net.up THEN Resolved(store, [data |-> <<>>], Fetched(url, {}, {}))
    ELSE Resolved(handled.store, handled.response.body,
                  Fetched(url, {handled.response.status}, {}))

\* CatalogApiClient.request asking once more after a request that failed
\* in transport
SettledAfterRetry(store, url, net, handled) ==
    IF ~net.up
    THEN Rejected(store, "Failed to fetch from " \o url \o ": " \o FetchFailed,
                  Fetched(url, {}, {}) \o Fetched(url, {}, {}))
    ELSE IF handled.response.status # 200
    THEN Rejected(handled.store,
                  "Failed to fetch from " \o url \o ": "
                    \o ApiError(handled.response.status, handled.response.body.error),
                  Fetched(url, {handled.response.status},
                          {handled.response.body.error}))
    ELSE Resolved(handled.store, handled.response.body,
                  Fetched(url, {handled.response.status}, {}))

\* CatalogApiClient.request: fetch(url) fails in transport when the server
\* cannot be reached; the error thrown for a response that is not ok is
\* caught by the catch of the same method and thrown again behind the URL
Settled(store, url, net, handled) ==
    IF ~net.up
    THEN Rejected(store, "Failed to fetch from " \o url \o ": " \o FetchFailed,
                  Fetched(url, {}, {}))
    ELSE IF handled.response.status # 200
    THEN Rejected(handled.store,
                  "Failed to fetch from " \o url \o ": "
                    \o ApiError(handled.response.status, handled.response.body.error),
                  Fetched(url, {handled.response.status},
                          {handled.response.body.error}))
    ELSE Resolved(handled.store, handled.response.body,
                  Fetched(url, {handled.response.status}, {}))

\* private async request<T>(endpoint): the fetch of baseUrl + endpoint is
\* answered by the layered server
ApiClient_request(forest, store, endpoint, net) ==
    Settled(store, BaseUrl \o endpoint.text, net,
            LayeredApp(forest, store, endpoint.path, ServerQuery(endpoint.pairs),
                       net.fault))

\* a parameter default: limit = 5
DefaultArg(arg, default) == IF arg = {} THEN {default} ELSE arg

\* searchParams.append(name, text) whatever the value
AppendAlways(condition, name, text) == << <<name, text>> >>

\* if (value) searchParams.append(name, text)
AppendIf(condition, name, text) == IF condition THEN << <<name, text>> >> ELSE <<>>

ApiClient_searchProducts(forest, store, params, net) ==
    LET searchParams ==
            AppendIf(TruthyArg(params.query), "q", Text(params.query))
            \o AppendIf(TruthyArg(params.category), "category", Text(params.category))
            \o AppendIf(TruthyArg(params.brand), "brand", Text(params.brand))
            \o AppendIf(params.minPrice # {}, "min_price", Text(params.minPrice))
            \o AppendIf(params.maxPrice # {}, "max_price", Text(params.maxPrice))
            \o AppendIf(TruthyArg(params.inStockOnly), "in_stock", "true")
            \o AppendIf(TruthyArg(params.page), "page", Text(params.page))
            \o AppendIf(TruthyArg(params.pageSize), "limit", Text(params.pageSize))
            \o AppendIf(TruthyArg(params.sortBy), "sort_by", Text(params.sortBy))
            \o AppendIf(TruthyArg(params.sortOrder), "sort_order", Text(params.sortOrder))
    IN  ApiClient_request(forest, store,
            Endpoint(IF TruthyArg(params.query)
                     THEN <<"api", "v1", "products", "search">>
                     ELSE <<"api", "v1", "products">>,
                     searchParams, "?"),
            net)

ApiClient_getProductDetails(forest, store, productId, net) ==
    ApiClient_request(forest, store,
        Endpoint(<<"api", "v1", "products", Text(productId)>>, <<>>, ""), net)

ApiClient_getProductRecommendations(forest, store, productId, limit, net) ==
    ApiClient_request(forest, store,
        Endpoint(<<"api", "v1", "products", Text(productId), "recommendations">>,
                 << <<"limit", Text(DefaultArg(limit, Num(5)))>> >>, "?"),
        net)

ApiClient_checkProductAvailability(forest, store, productId, net) ==
    ApiClient_request(forest, store,
        Endpoint(<<"api", "v1", "products", Text(productId), "availability">>, <<>>, ""),
        net)

ApiClient_getCategories(forest, store, parentId, includeProductCount, net) ==
    LET params ==
            AppendIf(TruthyArg(parentId), "parent_id", Text(parentId))
            \o AppendIf(~TruthyArg(DefaultArg(includeProductCount, Bool(TRUE))),
                        "include_product_count", "false")
    IN  ApiClient_request(forest, store,
            Endpoint(<<"api", "v1", "categories">>, params, "?"), net)

ApiClient_getPopularProducts(forest, store, category, limit, minRating, net) ==
    LET params ==
            AppendIf(TruthyArg(category), "category", Text(category))
            \o << <<"limit", Text(DefaultArg(limit, Num(10)))>>,
                  <<"min_rating", Text(DefaultArg(minRating, Decimal("4")))>> >>
    IN  ApiClient_request(forest, store,
            Endpoint(<<"api", "v1", "products", "popular">>, params, "?"), net)

ApiClient_getCategoryPriceRange(forest, store, categoryId, net) ==
    ApiClient_request(forest, store,
        Endpoint(<<"api", "v1", "categories", Text(categoryId), "price-range">>,
                 <<>>, ""),
        net)

ApiClient_getGeneralRecommendations(forest, store, category, limit, net) ==
    IF TruthyArg(category)
    THEN ApiClient_request(forest, store,
             Endpoint(<<"api", "v1", "products">>,
                      << <<"category", Text(category)>>,
                         <<"limit", Text(DefaultArg(limit, Num(5)))>>,
                         <<"sort_by", "rating">>, <<"sort_order", "desc">> >>, "?"),
             net)
    ELSE ApiClient_request(forest, store,
             Endpoint(<<"api", "v1", "products", "popular">>,
                      << <<"limit", Text(DefaultArg(limit, Num(5)))>> >>, "?"),
             net)

---------------------------------------------------------------------------
(* The tools of the MCP servers *)

\* how a tool invocation ends: with a result; with an error thrown, an
\* McpError with its code or a plain Error; or rejected against the schema
\* before the tool runs.  The HTTP requests made are kept with it.
ToolResult(store, content, fetches) ==
    [kind |-> "result", store |-> store, content |-> content, fetches |-> fetches]
ToolError(store, class, code, message, fetches) ==
    [kind |-> "error", store |-> store, class |-> class, code |-> code,
     message |-> message, fetches |-> fetches]
ToolRejected(store) == [kind |-> "rejected", store |-> store, fetches |-> <<>>]

\* catch (error) { if (error.message.includes('404')) throw new McpError(
\* ErrorCode.InvalidRequest, notFound); throw error; }
CatchNotFound(r, notFound) ==
    IF includes(r.message, "404")
    THEN ToolError(r.store, "McpError", "InvalidRequest", notFound, r.fetches)
    ELSE ToolError(r.store, "Error", "none", r.message, r.fetches)

\* JSON.stringify(apiResponse.data): the data, or the error the call threw
DataOrThrow(r) ==
    IF r.thrown THEN ToolError(r.store, "Error", "none", r.message, r.fetches)
    ELSE ToolResult(r.store, r.value.data, r.fetches)

\* try { return data } catch (error) { 404 in the message: not found }
DataOrNotFound(r, notFound) ==
    IF r.thrown THEN CatchNotFound(r, notFound) ELSE DataOrThrow(r)

\* value || fallback
OrElse(value, fallback) == IF value = 0 THEN fallback ELSE value

\* facets?.categories?.map((f) => ({ name: f.value, count: f.count })) || []
FacetNames(body, field) ==
    IF "facets" \in DOMAIN body
    THEN [i \in 1..Len(body.facets[field]) |->
            [name |-> body.facets[field][i].value, count |-> body.facets[field][i].count]]
    ELSE <<>>

\* the result of search_products: the page with its facets
SearchResult(r) ==
    IF r.thrown THEN DataOrThrow(r)
    ELSE ToolResult(r.store,
             [products |-> r.value.data,
              totalCount |-> OrElse(r.value.pagination.total, 0),
              page |-> OrElse(r.value.pagination.page, 1),
              pageSize |-> OrElse(r.value.pagination.limit, 10),
              totalPages |-> OrElse(r.value.pagination.totalPages, 0),
              facets |-> [categories |-> FacetNames(r.value, "categories"),
                          brands |-> FacetNames(r.value, "brands"),
                          priceRanges |-> <<>>]],
             r.fetches)

search_products(forest, store, args, net) ==
    SearchResult(ApiClient_searchProducts(forest, store,
                     [query |-> args.query, category |-> args.category,
                      brand |-> args.brand, minPrice |-> args.minPrice,
                      maxPrice |-> args.maxPrice,
                      inStockOnly |-> DefaultArg(args.inStockOnly, Bool(FALSE)),
                      page |-> DefaultArg(args.page, Num(1)),
                      pageSize |-> DefaultArg(args.pageSize, Num(10)),
                      sortBy |-> DefaultArg(args.sortBy, Str("name")),
                      sortOrder |-> DefaultArg(args.sortOrder, Str("asc"))],
                     net))

get_product_details(forest, store, args, net) ==
    DataOrNotFound(ApiClient_getProductDetails(forest, store, args.productId, net),
                   "Product with ID " \o Text(args.productId) \o " not found")

get_categories(forest, store, args, net) ==
    DataOrThrow(ApiClient_getCategories(forest, store, args.parentId,
                    DefaultArg(args.includeProductCount, Bool(TRUE)), net))

\* the case of the CallTool handler: without productId the general
\* recommendations are asked for, whatever category is
get_product_recommendations(forest, store, args, net) ==
    IF TruthyArg(args.productId)
    THEN DataOrNotFound(
             ApiClient_getProductRecommendations(forest, store, args.productId,
                                                 DefaultArg(args.limit, Num(5)), net),
             "Product with ID " \o Text(args.productId) \o " not found")
    ELSE DataOrThrow(
             ApiClient_getGeneralRecommendations(forest, store, args.category,
                                                 DefaultArg(args.limit, Num(5)), net))

\* the tool as the McpServer registers it: neither productId nor category
\* is an InvalidRequest error
registered_get_product_recommendations(forest, store, args, net) ==
    IF ~TruthyArg(args.productId) /\ ~TruthyArg(args.category)
    THEN ToolError(store, "McpError", "InvalidRequest",
             "Either productId or category must be provided for recommendations",
             <<>>)
    ELSE get_product_recommendations(forest, store, args, net)

check_product_availability(forest, store, args, net) ==
    DataOrNotFound(ApiClient_checkProductAvailability(forest, store, args.productId, net),
                   "Product with ID " \o Text(args.productId) \o " not found")

get_popular_products(forest, store, args, net) ==
    DataOrThrow(ApiClient_getPopularProducts(forest, store, args.category,
                    DefaultArg(args.limit, Num(10)),
                    DefaultArg(args.minRating, Decimal("4")), net))

get_price_range(forest, store, args, net) ==
    IF ~TruthyArg(args.category)
    THEN ToolError(store, "McpError", "InvalidRequest",
                   "Category parameter is required for price range", <<>>)
    ELSE DataOrNotFound(ApiClient_getCategoryPriceRange(forest, store, args.category, net),
                        "No products found in category " \o Text(args.category))

\* a property of an input schema: its type, its enumeration (empty when it
\* has none) and whether it is required
Property(type, enum, required) == [type |-> type, enum |-> enum, required |-> required]

\* the input schemas of the seven tools
InputSchema ==
    [search_products |->
        [query |-> Property("string", {}, FALSE),
         category |-> Property("string", {}, FALSE),
         brand |-> Property("string", {}, FALSE),
         minPrice |-> Property("number", {}, FALSE),
         maxPrice |-> Property("number", {}, FALSE),
         inStockOnly |-> Property("boolean", {}, FALSE),
         page |-> Property("number", {}, FALSE),
         pageSize |-> Property("number", {}, FALSE),
         sortBy |-> Property("string", {"name", "price", "rating", "createdAt"}, FALSE),
         sortOrder |-> Property("string", {"asc", "desc"}, FALSE)],
     get_product_details |-> [productId |-> Property("string", {}, TRUE)],
     get_categories |->
        [parentId |-> Property("string", {}, FALSE),
         includeProductCount |-> Property("boolean", {}, FALSE)],
     get_product_recommendations |->
        [productId |-> Property("string", {}, FALSE),
         category |-> Property("string", {}, FALSE),
         limit |-> Property("number", {}, FALSE)],
     check_product_availability |-> [productId |-> Property("string", {}, TRUE)],
     get_popular_products |->
        [category |-> Property("string", {}, FALSE),
         limit |-> Property("number", {}, FALSE),
         minRating |-> Property("number", {}, FALSE)],
     get_price_range |-> [category |-> Property("string", {}, FALSE)]]

ToolNames == DOMAIN InputSchema

\* the arguments satisfy the input schema of the tool
SatisfiesSchema(name, args) ==
    \A a \in DOMAIN InputSchema[name] :
        LET property == InputSchema[name][a]
        IN  IF args[a] = {} THEN ~property.required
            ELSE /\ Val(args[a]).type = property.type
                 /\ property.enum # {} => Val(args[a]).value \in property.enum

\* switch (name) of the CallTool handler, before its outer catch
ToolCase(name, forest, store, args, net) ==
    CASE name = "search_products" -> search_products(forest, store, args, net)
      [] name = "get_product_details" -> get_product_details(forest, store, args, net)
      [] name = "get_categories" -> get_categories(forest, store, args, net)
      [] name = "get_product_recommendations" ->
           get_product_recommendations(forest, store, args, net)
      [] name = "check_product_availability" ->
           check_product_availability(forest, store, args, net)
      [] name = "get_popular_products" -> get_popular_products(forest, store, args, net)
      [] name = "get_price_range" -> get_price_range(forest, store, args, net)
      [] OTHER -> ToolError(store, "McpError", "MethodNotFound",
                            "Unknown tool: " \o name, <<>>)

\* catch (error) { if (error instanceof McpError) throw error; throw new
\* McpError(ErrorCode.InternalError, `Error executing tool ${name}: ${error}`) }
OuterCatch(name, outcome) ==
    IF outcome.kind = "error" /\ outcome.class # "McpError"
    THEN ToolError(outcome.store, "McpError", "InternalError",
                   "Error executing tool " \o name \o ": Error: " \o outcome.message,
                   outcome.fetches)
    ELSE outcome

\* the CallTool handler: an McpError is thrown on as it is, every other error
\* as an InternalError McpError around its text
CallToolHandler(name, forest, store, args, net) ==
    OuterCatch(name, ToolCase(name, forest, store, args, net))

\* a tool registered with McpServer: the arguments are parsed against the
\* input schema, and the tool runs only with arguments that satisfy it
RegisteredTool(name, forest, store, args, net) ==
    IF ~SatisfiesSchema(name, args) THEN ToolRejected(store)
    ELSE IF name = "get_product_recommendations"
    THEN registered_get_product_recommendations(forest, store, args, net)
    ELSE ToolCase(name, forest, store, args, net)

---------------------------------------------------------------------------
(* The tool invocations *)

\* an invocation without arguments
NoArgs ==
    [query |-> {}, category |-> {}, brand |-> {}, minPrice |-> {}, maxPrice |-> {},
     inStockOnly |-> {}, page |-> {}, pageSize |-> {}, sortBy |-> {}, sortOrder |-> {},
     productId |-> {}, parentId |-> {}, includeProductCount |-> {}, limit |-> {},
     minRating |-> {}]

ToolCall(name, args) == [name |-> name, args |-> args]

\* Product ids as arguments: absent, of a product of the pool, of no
\* product, of no product and with the digits 404 in it, empty, a number
ProductIdValues ==
    { {}, {Str("iphone-15-pro")}, {Str("no-such-product")}, {Str("sku-404")},
      {Str("")}, {Num(404)} }

\* the invocations of the seven tools, with arguments inside and outside
\* their schemas
ToolCalls ==
    { ToolCall(name, [NoArgs EXCEPT !.productId = id]) :
        name \in {"get_product_details", "check_product_availability"},
        id \in ProductIdValues }
    \cup { ToolCall("get_product_recommendations",
                    [NoArgs EXCEPT !.productId = id, !.category = c, !.limit = n]) :
             id \in ProductIdValues \ { {Num(404)} },
             c \in { {}, {Str("electronics")} },
             n \in { {}, {Num(1)} } }
    \cup { ToolCall("get_price_range", [NoArgs EXCEPT !.category = c]) :
             c \in { {}, {Str("electronics")}, {Str("shirts")},
                     {Str("category-404")}, {Num(7)} } }
    \cup { ToolCall("search_products",
                    [NoArgs EXCEPT !.query = q, !.sortBy = by, !.sortOrder = order,
                                   !.pageSize = n, !.inStockOnly = stocked]) :
             q \in { {}, {Str("a")} },
             by \in { {}, {Str("price")}, {Str("createdAt")}, {Str("popularity")} },
             order \in { {}, {Str("desc")}, {Str("down")} },
             n \in { {}, {Num(1)} },
             stocked \in { {}, {Bool(TRUE)} } }
    \cup { ToolCall("get_categories",
                    [NoArgs EXCEPT !.parentId = parent, !.includeProductCount = include]) :
             parent \in { {}, {Str("electronics")} },
             include \in { {}, {Bool(FALSE)} } }
    \cup { ToolCall("get_popular_products",
                    [NoArgs EXCEPT !.category = c, !.minRating = rating]) :
             c \in { {}, {Str("electronics")} },
             rating \in { {}, {Decimal("4.5")} } }

\* an invocation of a tool that is not on the menu
UnknownToolCalls == { ToolCall("delete_product", NoArgs) }

\* the API as a request finds it: reachable or not, and its repositories
\* answering or rejecting
Nets ==
    { [up |-> TRUE, fault |-> {}],
      [up |-> TRUE, fault |-> {<<"Database unavailable">>}],
      [up |-> FALSE, fault |-> {}] }

\* the invocation is answered with its outcome
Invoked(server, call, net, outcome) ==
    /\ products' = outcome.store
    /\ request' = [op |-> "tool", server |-> server, name |-> call.name,
                   args |-> call.args, net |-> net]
    /\ response' = outcome
    /\ UNCHANGED categories

\* server.setRequestHandler(CallToolRequestSchema, ...)
CallTool ==
    /\ Idle
    /\ \E call \in ToolCalls \cup UnknownToolCalls, net \in Nets :
        Invoked("calltool", call, net,
                CallToolHandler(call.name, categories, products, call.args, net))

\* a tool registered with server.registerTool is called
CallRegisteredTool ==
    /\ Idle
    /\ \E call \in ToolCalls, net \in Nets :
        Invoked("registered", call, net,
                RegisteredTool(call.name, categories, products, call.args, net))

ToolNext ==
    \/ CallTool
    \/ CallRegisteredTool
    \/ Return

ToolSpec == Init /\ [][ToolNext]_vars

---------------------------------------------------------------------------
(* Properties of the tool servers *)

\* a tool was invoked and ran (its arguments were not rejected)
ToolRan(name) ==
    request.op = "tool" /\ request.name = name /\ response.kind # "rejected"

\* the tools that look one thing up by its id
ByIdTools ==
    {"get_product_details", "check_product_availability",
     "get_product_recommendations", "get_price_range"}

\* a by-id invocation that ran: of the recommendations, one with productId
ByIdInvocation ==
    /\ request.op = "tool" /\ request.name \in ByIdTools
    /\ response.kind # "rejected"
    /\ request.name = "get_product_recommendations" => TruthyArg(request.args.productId)

\* the message of the by-id tool echoing the id it was given
NotFoundMessage ==
    IF request.name = "get_price_range"
    THEN "No products found in category " \o Text(request.args.category)
    ELSE "Product with ID " \o Text(request.args.productId) \o " not found"

ReportedNotFound ==
    /\ response.kind = "error"
    /\ response.class = "McpError" /\ response.code = "InvalidRequest"
    /\ response.message = NotFoundMessage

\* the API answered the one request of the invocation with this status
ApiAnswered(status) ==
    Len(response.fetches) = 1 /\ response.fetches[1].status = {status}

\* C17: a by-id tool invocation fails with the InvalidRequest error that
\* echoes the id if and only if the API answered 404 for its request; a
\* transport failure or another status is never reported as not found
C17_NotFoundIffApi404 ==
    ByIdInvocation => (ReportedNotFound <=> ApiAnswered(404))

\* the API can be reached and its repositories answer
ApiHealthy == request.net.up /\ request.net.fault = {}

\* limit = 5 of the recommendations
RecommendationLimit ==
    IF request.args.limit = {} THEN 5
    ELSE CHOOSE n \in 0..MaxLimit : ToString(n) = Val(request.args.limit).value

\* the products of a category, best rated first and at most limit of them
IsCategoryFallback(list, category, limit) ==
    /\ Len(list) <= limit
    /\ \A i \in 1..Len(list) : MatchesCategory(list[i], category)
    /\ \A i \in 1..(Len(list) - 1) : list[i].rating >= list[i + 1].rating

\* C18: get_product_recommendations with productId asks for the
\* recommendations of that product, whatever category is, and ends with
\* them or not found; without productId and with category it returns the
\* products of the category, best rated first and limited to limit; with
\* neither it fails with an InvalidRequest error and no HTTP request
C18_RecommendationBranches ==
    ToolRan("get_product_recommendations") =>
        /\ TruthyArg(request.args.productId) /\ ApiHealthy =>
             /\ response.fetches[1].url =
                    BaseUrl \o "/api/v1/products/" \o Text(request.args.productId)
                      \o "/recommendations?limit=" \o ToString(RecommendationLimit)
             /\ \/ response.kind = "result" /\ ApiAnswered(200)
                \/ ReportedNotFound /\ ApiAnswered(404)
        /\ request.args.productId = {} /\ TruthyArg(request.args.category) /\ ApiHealthy =>
             /\ response.kind = "result"
             /\ IsCategoryFallback(response.content, Text(request.args.category),
                                   RecommendationLimit)
        /\ request.args.productId = {} /\ request.args.category = {} =>
             /\ response.kind = "error"
             /\ response.class = "McpError" /\ response.code = "InvalidRequest"
             /\ response.fetches = <<>>

\* C19: a tool invocation whose arguments do not satisfy the input schema
\* of the tool (a required productId missing, a value of another type, a
\* sortBy or sortOrder outside its enumeration) is rejected, and no HTTP
\* request is made for it
C19_SchemaViolationsRejected ==
    request.op = "tool" /\ request.name \in ToolNames
      /\ ~SatisfiesSchema(request.name, request.args) =>
        /\ response.kind # "result"
        /\ response.fetches = <<>>

\* String.prototype.startsWith
startsWith(s, prefix) ==
    Len(s) >= Len(prefix) /\ SubSeq(s, 1, Len(prefix)) = prefix

\* an argument the tool cannot work without is missing
MissingArgument ==
    \/ request.name = "get_price_range" /\ ~TruthyArg(request.args.category)
    \/ /\ request.name = "get_product_recommendations"
       /\ ~TruthyArg(request.args.productId) /\ ~TruthyArg(request.args.category)

\* the MCP error code that the cause of a failed invocation calls for
CodeOfCause ==
    IF request.name \notin ToolNames THEN "MethodNotFound"
    ELSE IF MissingArgument THEN "InvalidRequest"
    ELSE IF ByIdInvocation /\ ApiAnswered(404) THEN "InvalidRequest"
    ELSE "InternalError"

\* C20: a failed invocation in the CallTool handler ends in the one MCP
\* error class of its cause: MethodNotFound, without an HTTP request, for a
\* name outside the seven tools; InvalidRequest for not found and for a
\* missing argument; InternalError around the original message for every
\* other failure
C20_ErrorClassOfCause ==
    request.op = "tool" /\ request.server = "calltool" /\ response.kind = "error" =>
        /\ response.class = "McpError"
        /\ response.code = CodeOfCause
        /\ response.code = "MethodNotFound" => response.fetches = <<>>
        /\ response.code = "InternalError" =>
             /\ Len(response.fetches) = 1
             /\ startsWith(response.message,
                           "Error executing tool " \o request.name
                             \o ": Error: Failed to fetch from "
                             \o response.fetches[1].url \o ": ")

---------------------------------------------------------------------------
(* The calls of the API client *)

\* arguments of the client methods: absent, or given
CategoryValues == { {}, {Str("electronics")}, {Str("no-such-category")} }
LimitValues == { {}, {Num(1)} }

\* params of searchProducts, present and absent, among them the falsy
\* minPrice 0 and page 0
SearchParams ==
    [query : { {}, {Str("p")} },
     category : { {}, {Str("electronics")} },
     brand : { {} },
     minPrice : { {}, {Num(0)} },
     maxPrice : { {} },
     inStockOnly : { {}, {Bool(TRUE)} },
     page : { {}, {Num(0)} },
     pageSize : { {}, {Num(1)} },
     sortBy : { {}, {Str("price")} },
     sortOrder : { {} }]

\* the call is answered with its outcome
Called(method, args, net, outcome) ==
    /\ products' = outcome.store
    /\ request' = [op |-> "client", method |-> method, args |-> args, net |-> net]
    /\ response' = outcome
    /\ UNCHANGED categories

ClientSearchProducts ==
    /\ Idle
    /\ \E params \in SearchParams, net \in Nets :
        Called("searchProducts", params, net,
               ApiClient_searchProducts(categories, products, params, net))

ClientGetProductDetails ==
    /\ Idle
    /\ \E id \in ProductIdValues, net \in Nets :
        Called("getProductDetails", [productId |-> id], net,
               ApiClient_getProductDetails(categories, products, id, net))

ClientGetProductRecommendations ==
    /\ Idle
    /\ \E id \in ProductIdValues, limit \in LimitValues, net \in Nets :
        Called("getProductRecommendations", [productId |-> id, limit |-> limit], net,
               ApiClient_getProductRecommendations(categories, products, id, limit, net))

ClientCheckProductAvailability ==
    /\ Idle
    /\ \E id \in ProductIdValues, net \in Nets :
        Called("checkProductAvailability", [productId |-> id], net,
               ApiClient_checkProductAvailability(categories, products, id, net))

ClientGetCategories ==
    /\ Idle
    /\ \E parentId \in CategoryValues, include \in { {}, {Bool(FALSE)}, {Bool(TRUE)} },
          net \in Nets :
        Called("getCategories",
               [parentId |-> parentId, includeProductCount |-> include], net,
               ApiClient_getCategories(categories, products, parentId, include, net))

ClientGetPopularProducts ==
    /\ Idle
    /\ \E category \in CategoryValues, limit \in LimitValues,
          minRating \in { {}, {Decimal("4.5")} }, net \in Nets :
        Called("getPopularProducts",
               [category |-> category, limit |-> limit, minRating |-> minRating], net,
               ApiClient_getPopularProducts(categories, products, category, limit,
                                            minRating, net))

ClientGetCategoryPriceRange ==
    /\ Idle
    /\ \E categoryId \in CategoryValues \ { {} }, net \in Nets :
        Called("getCategoryPriceRange", [categoryId |-> categoryId], net,
               ApiClient_getCategoryPriceRange(categories, products, categoryId, net))

ClientGetGeneralRecommendations ==
    /\ Idle
    /\ \E category \in CategoryValues, limit \in LimitValues, net \in Nets :
        Called("getGeneralRecommendations", [category |-> category, limit |-> limit],
               net,
               ApiClient_getGeneralRecommendations(categories, products, category,
                                                   limit, net))

ClientNext ==
    \/ ClientSearchProducts
    \/ ClientGetProductDetails
    \/ ClientGetProductRecommendations
    \/ ClientCheckProductAvailability
    \/ ClientGetCategories
    \/ ClientGetPopularProducts
    \/ ClientGetCategoryPriceRange
    \/ ClientGetGeneralRecommendations
    \/ Return

ClientSpec == Init /\ [][ClientNext]_vars

---------------------------------------------------------------------------
(* Properties of the API client *)

\* a method of the client was called and made one request
ClientFetched ==
    request.op = "client" /\ Len(response.fetches) = 1

\* C21: when the API answers a status that is not a success, request throws
\* an error whose message carries that status and the error text of the
\* server; when the request fails in transport it throws an error around
\* the message of the cause, which is not taken for an HTTP failure
C21_RequestFailures ==
    ClientFetched =>
        LET fetch == response.fetches[1]
        IN  /\ response.thrown <=> fetch.status # {200}
            /\ \A status \in fetch.status \ {200} :
                 /\ fetch.error # {}
                 /\ response.message =
                        "Failed to fetch from " \o fetch.url \o ": API Error ("
                          \o ToString(status) \o "): " \o Val(fetch.error)
            /\ fetch.status = {} =>
                 /\ ~request.net.up
                 /\ response.message =
                        "Failed to fetch from " \o fetch.url \o ": " \o FetchFailed
                 /\ ~includes(response.message, "API Error (")

\* a product that does not exist was asked for: 404 with the error text of
\* the server
C21_Witness ==
    /\ ClientFetched /\ request.method = "getProductDetails"
    /\ response.thrown
    /\ response.fetches[1].status = {404}
    /\ response.fetches[1].error = {"Product not found"}
    /\ includes(response.message, "API Error (404): Product not found")

---------------------------------------------------------------------------
(* The client and the tool servers together *)

BridgeNext ==
    \/ ClientSearchProducts
    \/ ClientGetProductDetails
    \/ ClientGetProductRecommendations
    \/ ClientCheckProductAvailability
    \/ ClientGetCategories
    \/ ClientGetPopularProducts
    \/ ClientGetCategoryPriceRange
    \/ ClientGetGeneralRecommendations
    \/ CallTool
    \/ CallRegisteredTool
    \/ Return

BridgeSpec == Init /\ [][BridgeNext]_vars

\* the request failed: in transport, or with a status that is not ok
FetchFailedAt(i) == response.fetches[i].status # {200}

\* C22: a call of a client method makes exactly one fetch and a tool
\* invocation at most one; a request that failed is not made again, and
\* the call or invocation ends in an error without a result
C22_OneFetchNoRetry ==
    /\ request.op = "client" =>
         /\ Len(response.fetches) = 1
         /\ FetchFailedAt(1) =>
              response.thrown /\ "value" \notin DOMAIN response
    /\ request.op = "tool" =>
         /\ Len(response.fetches) <= 1
         /\ Len(response.fetches) = 1 /\ FetchFailedAt(1) =>
              response.kind = "error" /\ "content" \notin DOMAIN response

\* a tool invocation whose one request failed in transport ended in an error
C22_Witness ==
    /\ request.op = "tool" /\ request.name = "search_products"
    /\ Len(response.fetches) = 1
    /\ response.fetches[1].status = {}
    /\ response.kind = "error"

---------------------------------------------------------------------------
(* Requests in flight together *)

\* at most this many requests are in flight together
MaxInFlight == 2

HttpCall(path, query) == [kind |-> "http", path |-> path, query |-> query]
ToolInvocation(name, args, net) ==
    [kind |-> "tool", name |-> name, args |-> args, net |-> net]

\* HTTP requests to the layered server and invocations of the CallTool
\* handler that sort, filter and look up the products
ConcurrentCalls ==
    { HttpCall(<<"api", "v1", "categories", "electronics", "products">>, NoQuery),
      HttpCall(<<"api", "v1", "products">>,
               [NoQuery EXCEPT !.sort_by = {"rating"}, !.sort_order = {"desc"}]),
      HttpCall(<<"api", "v1", "products", "search">>, [NoQuery EXCEPT !.q = {<<"p">>}]) }
    \cup { ToolInvocation("search_products",
                          [NoArgs EXCEPT !.sortBy = {Str("price")},
                                         !.sortOrder = {Str("desc")}], net) :
             net \in Nets }
    \cup { ToolInvocation("get_popular_products", NoArgs, [up |-> TRUE, fault |-> {}]),
           ToolInvocation("get_product_details",
                          [NoArgs EXCEPT !.productId = {Str("iphone-15-pro")}],
                          [up |-> TRUE, fault |-> {}]) }

\* the request run alone against a store: how it ends, and the store after
Alone(call, forest, store) ==
    IF call.kind = "http"
    THEN LayeredApp(forest, store, call.path, call.query, {})
    ELSE CallToolHandler(call.name, forest, store, call.args, call.net)

\* requests are in flight: request.calls are the requests and response
\* holds, for each, where it is and how it ended
InFlight == request.op = "concurrent"

Slot(pc, outcome) == [pc |-> pc, outcome |-> outcome]

\* a request arrives and runs up to its I/O boundary: an HTTP request is
\* read, a tool invocation awaits its fetch
Arrive ==
    \E call \in ConcurrentCalls :
        /\ \/ /\ Idle
              /\ request' = [op |-> "concurrent", store |-> products, calls |-> <<call>>]
              /\ response' = << Slot("suspended", {}) >>
           \/ /\ InFlight
              /\ Len(request.calls) < MaxInFlight
              /\ request' = [request EXCEPT !.calls = Append(@, call)]
              /\ response' = Append(response, Slot("suspended", {}))
        /\ UNCHANGED <<products, categories>>

\* the handler of the server runs for one of the requests, against the store
\* as it is then; for a tool whose fetch fails in transport, the fetch rejects
Serve ==
    /\ InFlight
    /\ \E i \in 1..Len(request.calls) :
        /\ response[i].pc = "suspended"
        /\ products' = Alone(request.calls[i], categories, products).store
        /\ response' = [response EXCEPT
                           ![i] = Slot("served",
                                       {Alone(request.calls[i], categories, products)})]
        /\ UNCHANGED <<request, categories>>

\* the response reaches the one who asked
Complete ==
    /\ InFlight
    /\ \E i \in 1..Len(request.calls) :
        /\ response[i].pc = "served"
        /\ response' = [response EXCEPT ![i].pc = "done"]
        /\ UNCHANGED <<products, request, categories>>

\* every request in flight is done
Quiesce ==
    /\ InFlight
    /\ \A i \in 1..Len(request.calls) : response[i].pc = "done"
    /\ request' = [op |-> "none"]
    /\ response' = [op |-> "none"]
    /\ UNCHANGED <<products, categories>>

ConcurrentNext ==
    \/ Arrive
    \/ Serve
    \/ Complete
    \/ Quiesce

ConcurrentSpec == Init /\ [][ConcurrentNext]_vars

\* C23: whatever the interleaving of the requests in flight at their I/O
\* boundaries, each ends as it ends when run alone against the store the
\* requests found, and the store is left as they found it
C23_IndependentRequests ==
    InFlight =>
        /\ products = request.store
        /\ \A i \in 1..Len(request.calls) :
             response[i].pc # "suspended" =>
                response[i].outcome =
                    {Alone(request.calls[i], categories, request.store)}

\* a tool invocation and an HTTP request were in flight together over a
\* store of two products or more: the HTTP request is done and the tool
\* invocation was served with a result
C23_Witness ==
    /\ InFlight /\ Len(request.calls) = 2
    /\ request.calls[1].kind = "tool" /\ request.calls[2].kind = "http"
    /\ response[2].pc = "done" /\ response[1].pc = "served"
    /\ Len(products) >= 2
    /\ \E o \in response[1].outcome : o.kind = "result"

---------------------------------------------------------------------------
(* Properties of search_products *)

\* the products are in the order of their creation instants, ascending, or
\* descending for 'desc'
IsOrderedByCreation(list, sortOrder) ==
    \A i \in 1..(Len(list) - 1) :
        IF sortOrder = {Str("desc")}
        THEN getTime(list[i].createdAt) >= getTime(list[i + 1].createdAt)
        ELSE getTime(list[i].createdAt) <= getTime(list[i + 1].createdAt)

\* C24: search_products with sortBy 'createdAt' and no query returns the
\* products ordered by their creation instant, ascending, or descending
\* with sortOrder 'desc'
C24_SortByCreatedAt ==
    ToolRan("search_products") /\ response.kind = "result"
      /\ request.args.sortBy = {Str("createdAt")} /\ request.args.query = {}
      /\ request.args.sortOrder \in { {}, {Str("asc")}, {Str("desc")} } =>
        IsOrderedByCreation(response.content.products, request.args.sortOrder)

---------------------------------------------------------------------------
(* The start of the MCP server *)

\* what the probe of GET /health meets: no server to reach, or a server
\* answering a status
Probes ==
    { [up |-> FALSE, status |-> 0] }
    \cup { [up |-> TRUE, status |-> s] : s \in {200, 204, 301, 404, 500, 503} }

\* Response.ok: the status is in the range 200-299
ok(status) == status >= 200 /\ status <= 299

\* how healthCheck ends: with a boolean, or with an error thrown
Probed(value) == [thrown |-> FALSE, value |-> value]
ProbeThrown == [thrown |-> TRUE, value |-> FALSE]

\* healthCheck without its try and catch
ApiClient_healthCheckWithoutCatch(probe) ==
    IF ~probe.up THEN ProbeThrown ELSE Probed(ok(probe.status))

\* try { return (await fetch(`${this.baseUrl}/health`)).ok } catch { return false }
ApiClient_healthCheck(probe) ==
    IF ~probe.up THEN Probed(FALSE) ELSE Probed(ok(probe.status))

\* where main is, the probe's answer once it has one, and whether the
\* warning was written
MainAt(pc, isApiHealthy, warned) ==
    [pc |-> pc, isApiHealthy |-> isApiHealthy, warned |-> warned]

\* main() is called and awaits apiClient.healthCheck()
MainStart ==
    /\ Idle
    /\ \E probe \in Probes :
        /\ request' = [op |-> "main", probe |-> probe]
        /\ response' = MainAt("awaiting healthCheck", {}, FALSE)
    /\ UNCHANGED <<products, categories>>

\* healthCheck has ended: the warning is written when the API is not
\* healthy, and main awaits server.connect(transport); an error thrown by
\* healthCheck rejects main, and the catch of main() exits the process
MainProbed ==
    /\ request.op = "main"
    /\ response.pc = "awaiting healthCheck"
    /\ response' =
          IF ApiClient_healthCheck(request.probe).thrown
          THEN MainAt("exited", {}, FALSE)
          ELSE MainAt("awaiting connect",
                      {ApiClient_healthCheck(request.probe).value},
                      ~ApiClient_healthCheck(request.probe).value)
    /\ UNCHANGED <<products, categories, request>>

\* server.connect(transport) has resolved: the server runs on stdio
MainConnected ==
    /\ request.op = "main"
    /\ response.pc = "awaiting connect"
    /\ response' = [response EXCEPT !.pc = "running"]
    /\ UNCHANGED <<products, categories, request>>

\* the process ends
MainEnds ==
    /\ request.op = "main"
    /\ response.pc \in {"running", "exited"}
    /\ request' = [op |-> "none"]
    /\ response' = [op |-> "none"]
    /\ UNCHANGED <<products, categories>>

StartupNext ==
    \/ MainStart
    \/ MainProbed
    \/ MainConnected
    \/ MainEnds

\* the promises main awaits settle: fetch ends with a response or an error,
\* and connect resolves
StartupSpec ==
    /\ Init
    /\ [][StartupNext]_vars
    /\ WF_vars(MainProbed)
    /\ WF_vars(MainConnected)

\* the probe met a server that answered a success status
ProbeSucceeds == request.probe.up /\ request.probe.status \in 200..299

\* main has awaited the probe
MainPastProbe ==
    request.op = "main" /\ response.pc \in {"awaiting connect", "running"}

\* C25: main awaits the health probe and then connects the stdio transport
\* whatever the probe answered: healthCheck is true exactly for a success
\* status of GET /health, false for every other status and for a transport
\* failure, and never throws; an API that is not healthy gives the warning
\* and nothing else, and the server comes to run
C25_StartupWhateverTheProbe ==
    /\ [](request.op = "main" =>
            /\ response.pc # "exited"
            /\ response.pc = "awaiting healthCheck" => response.isApiHealthy = {}
            /\ MainPastProbe =>
                 /\ response.isApiHealthy = {ProbeSucceeds}
                 /\ response.warned = ~ProbeSucceeds)
    /\ (request.op = "main") ~> (request.op = "main" /\ response.pc = "running")

\* the API could not be reached, and the server runs after the warning
C25_Witness ==
    /\ request.op = "main" /\ ~request.probe.up
    /\ response.pc = "running"
    /\ response.isApiHealthy = {FALSE} /\ response.warned

---------------------------------------------------------------------------
(* Properties of pagination over HTTP *)

\* the handlers that answer a page
PaginatedHandlers == {"getProducts", "searchProducts", "getCategoryProducts"}

\* a page was asked for with this limit, and the repository answered
PageAsked(limit) ==
    /\ request.op = "GET" /\ response.handler \in PaginatedHandlers
    /\ request.query.limit = {limit}
    /\ request.fault = {}

\* C26: limit = 0 on a paginated endpoint is not rejected by the
\* controller: the repository gets limit 0 and computes totalPages as total
\* divided by 0, which is no finite number (null in the JSON body), and
\* hasNext from it; the response is 200 with an empty page
C26_LimitZeroIsAnswered ==
    PageAsked(<<"0">>) =>
        /\ response.status = 200
        /\ response.body.data = <<>>
        /\ response.body.pagination.limit = 0
        /\ CeilDiv(response.body.pagination.total, 0) \in {"Infinity", "NaN"}
        /\ response.body.pagination.totalPages = "null"
        /\ response.body.pagination.hasNext = (response.body.pagination.total > 0)
        /\ response.handler = "getProducts" =>
              response.body.pagination.total = Len(products)

\* GET /api/v1/products?limit=0 over a store that has products: 200, no
\* data, a total, and hasNext
C26_Witness ==
    /\ PageAsked(<<"0">>) /\ response.handler = "getProducts"
    /\ response.status = 200
    /\ response.body.data = <<>>
    /\ response.body.pagination.total >= 2
    /\ response.body.pagination.hasNext

---------------------------------------------------------------------------
(* Properties of the query strings *)

\* the key a parameter of a client method is written under
KeyOfParam ==
    [query |-> "q", category |-> "category", brand |-> "brand",
     minPrice |-> "min_price", maxPrice |-> "max_price", inStockOnly |-> "in_stock",
     page |-> "page", pageSize |-> "limit", sortBy |-> "sort_by",
     sortOrder |-> "sort_order", parentId |-> "parent_id",
     includeProductCount |-> "include_product_count", limit |-> "limit",
     minRating |-> "min_rating"]

QueryKeys == { KeyOfParam[a] : a \in DOMAIN KeyOfParam }

\* the URL has the key in its query string
HasKey(url, key) ==
    includes(url, "?" \o key \o "=") \/ includes(url, "&" \o key \o "=")

\* the URL has the key with this value
HasPair(url, key, value) ==
    \/ includes(url, "?" \o key \o "=" \o value \o "&")
    \/ includes(url, "&" \o key \o "=" \o value \o "&")
    \/ includes(url \o "&", "?" \o key \o "=" \o value \o "&")
    \/ includes(url \o "&", "&" \o key \o "=" \o value \o "&")

\* the client methods that build a query string from optional parameters
QueryMethods ==
    {"searchProducts", "getCategories", "getPopularProducts",
     "getGeneralRecommendations"}

\* one of those methods was called
QueryBuilt == ClientFetched /\ request.method \in QueryMethods

DefaultText(method, a) ==
    CASE method = "getPopularProducts" /\ a = "limit" -> {"10"}
      [] method = "getPopularProducts" /\ a = "minRating" -> {"4"}
      [] method = "getGeneralRecommendations" /\ a = "limit" -> {"5"}
      [] OTHER -> {}

\* the parameter is written only when it is given: when it is truthy, and
\* for minPrice and maxPrice when it is not undefined
Written(a, arg) ==
    IF a \in {"minPrice", "maxPrice"} THEN arg # {}
    ELSE IF a = "includeProductCount" THEN arg = {Bool(FALSE)}
    ELSE TruthyArg(arg)

IsOrderedByPrice(list, sortOrder) ==
    \A i \in 1..(Len(list) - 1) :
        IF sortOrder = {Str("desc")}
        THEN list[i].price >= list[i + 1].price
        ELSE list[i].price <= list[i + 1].price

\* C28: in the result of search_products, with a query or without, every
\* product satisfies the filters given (here inStockOnly) and the products
\* are in the order asked for with sortBy and sortOrder (here by price)
C28_SearchHonoursFiltersAndSort ==
    ToolRan("search_products") /\ response.kind = "result" =>
        /\ request.args.inStockOnly = {Bool(TRUE)} =>
             \A i \in 1..Len(response.content.products) :
                 response.content.products[i].inStock
        /\ request.args.sortBy = {Str("price")}
             /\ request.args.sortOrder \in { {}, {Str("asc")}, {Str("desc")} } =>
             IsOrderedByPrice(response.content.products, request.args.sortOrder)

\* the page asked for is none of the pages 1..totalPages
PageOutsideRange ==
    \/ response.body.pagination.page < 1
    \/ response.body.pagination.page > response.body.pagination.totalPages

\* C29: for a limit of 1 or more and a page outside 1..totalPages (page 0,
\* a negative page, a page after the last) getProducts, searchProducts and
\* getCategoryProducts answer an empty data page
C29_NoPageOutsideRange ==
    request.op = "GET" /\ response.handler \in PaginatedHandlers
      /\ response.status = 200
      /\ response.body.pagination.limit >= 1
      /\ PageOutsideRange =>
        response.body.data = <<>>

---------------------------------------------------------------------------
(* Category lookup over the whole forest *)

\* the ids of the categories of the forest, top-level or nested
ForestIds == { c.id : c \in RecordsOf(categories) }

\* C30: GET /api/v1/categories/:id answers 200 with the category for every
\* id that exists anywhere in the category forest, top-level or nested, and
\* 404 only for an id that exists at no level; GET /api/v1/categories with
\* a parent_id that exists anywhere in the forest answers 200 and is never
\* the not-found response
C30_LookupReachesNestedCategories ==
    request.op = "GET" /\ request.fault = {} =>
      /\ response.handler = "getCategoryById" =>
           /\ request.path[4] \in ForestIds =>
                response.status = 200 /\ response.body.data.id = request.path[4]
           /\ response.status = 404 => request.path[4] \notin ForestIds
      /\ response.handler = "getCategories"
           /\ Truthy(request.query.parent_id)
           /\ Val(request.query.parent_id) \in ForestIds =>
                response.status = 200

=============================================================================
